---- MODULE Spec2Model ----
(***************************************************************************)
(* Resilient state and remote-data cache of the signage application:       *)
(*   src/lib/safeStorage.ts          safeStorage (localStorage + fallback)  *)
(*   src/services/storageService.ts  getStoredData / saveStoredData         *)
(*   src/unnamed/part_001            logService, loginLog, safeFetch        *)
(*   src/components/AppErrorBoundary.tsx  AdminDashboard handlers           *)
(***************************************************************************)
EXTENDS Integers, Sequences, FiniteSets, TLC

VARIABLES
    ls,          \* window.localStorage: key -> stored string, or NULL
    mem,         \* memoryStorage (safeStorage.ts:8): key -> string, or UNDEFINED
    medium,      \* how the persistent medium answers: "ok", "blocked", "quota"
    kvRet,       \* outcome of the last direct safeStorage call
    written,     \* history: key -> last value given to setItem, NONE after removeItem/clear
    sinceClear,  \* history: key -> a clear() returned and no setItem(key) came after it
    allBlocked,  \* history: the medium has rejected every access since start-up
    defaultData, \* the module object DEFAULT_DATA (storageService.ts:8)
    data,        \* the `data` state of the mounted view (AdminDashboard / KioskView)
    annRef,      \* data.announcements[i] is the object DEFAULT_DATA.announcements[annRef[i]] (0: its own)
    serial,      \* number of log entries created so far (stands for id and timestamp)
    cfgRet,      \* outcome of the last getStoredData / saveStoredData call
    lastSaved,   \* history: argument of the last saveStoredData made while the medium worked
    clock,       \* Date.now(), in milliseconds
    calls,       \* the safeFetch calls: where each stands and what it holds
    assigned,    \* history: the ids given to new entities, per collection, in order
    importStatus,      \* AdminDashboard state: 'idle' | 'processing' | 'preview'
    importStep,        \* AdminDashboard state: 0..5
    previewData,       \* AdminDashboard state: the extraction to verify, or null
    importTimeoutRef,  \* importTimeoutRef.current: a timer handle, or null
    timers,      \* the import timers that are set: handle, due time, captured importStatus
    imports,     \* the handlePdfImport invocations in flight: where each stands
    session,     \* SimpleAuthProvider state: the AdminSession, or null
    isAuthenticated    \* the value the provider computed when it last rendered

storeVars == <<ls, mem, medium>>
kvVars == <<kvRet, written, sinceClear, allBlocked>>
cfgVars == <<defaultData, data, annRef, serial, cfgRet, lastSaved>>
fetchVars == <<clock, calls>>
idVars == <<assigned>>
importVars == <<importStatus, importStep, previewData, importTimeoutRef, timers, imports>>
authVars == <<session, isAuthenticated>>
uiVars == <<idVars, importVars, authVars>>
vars == <<storeVars, kvVars, cfgVars, fetchVars, uiVars>>

----------------------------------------------------------------------------
(* Strings as the storage layer sees them.  A stored string is either raw   *)
(* text (the empty string, or text that is not JSON) or the JSON text of a  *)
(* value.  NULL is what getItem gives for a missing key, UNDEFINED what a    *)
(* property read of a plain object gives for a missing key.                 *)

NULL == [k |-> "null"]
UNDEFINED == [k |-> "undefined"]
NONE == [k |-> "none"]
Raw(s) == [k |-> "raw", s |-> s]
EmptyStr == Raw("")

\* JavaScript truthiness of a string | null | undefined
TruthyStr(x) ==
    CASE x.k = "raw" -> x.s # ""
      [] x.k = "json" -> TRUE
      [] OTHER -> FALSE

STORAGE_KEY == "HARDY_SIGNAGE_DATA"
LOG_STORAGE_KEY == "HARDY_SYSTEM_LOGS"
CACHE_PREFIX == "hardy_cache_"
\* CACHE_PREFIX + key
CacheKey(key) == CASE key = "weather" -> "hardy_cache_weather"
                   [] key = "news" -> "hardy_cache_news"
CacheKeys == {CacheKey("weather")}
\* authLogService (src/unnamed/part_001:51)
LOG_KEY == "admin_login_log"
SESSION_KEY == "admin_session"
KVKeys == {STORAGE_KEY, LOG_STORAGE_KEY}
Keys == KVKeys \cup CacheKeys \cup {LOG_KEY, SESSION_KEY}

Mediums == {"ok", "blocked", "quota"}

----------------------------------------------------------------------------
(* window.localStorage as the browser provides it: every access throws     *)
(* when storage is blocked, setItem alone throws when the quota is used up *)

Threw == [threw |-> TRUE]
Done(v, l) == [threw |-> FALSE, val |-> v, ls |-> l]

localStorage_getItem(l, md, key) ==
    IF md = "blocked" THEN Threw ELSE Done(l[key], l)

localStorage_setItem(l, md, key, value) ==
    IF md \in {"blocked", "quota"} THEN Threw
    ELSE Done(NULL, [l EXCEPT ![key] = value])

localStorage_removeItem(l, md, key) ==
    IF md = "blocked" THEN Threw ELSE Done(NULL, [l EXCEPT ![key] = NULL])

localStorage_clear(l, md) ==
    IF md = "blocked" THEN Threw ELSE Done(NULL, [kk \in DOMAIN l |-> NULL])

----------------------------------------------------------------------------
(* safeStorage (src/lib/safeStorage.ts).  Each operator gives the outcome  *)
(* of one call: whether it threw, its return value, and both stores after. *)

Out(v, l, m) == [threw |-> FALSE, val |-> v, ls |-> l, mem |-> m]
Raise(l, m) == [threw |-> TRUE, val |-> NULL, ls |-> l, mem |-> m]

\* a variant without the try/catch of removeItem
safeStorage_removeItem_nocatch(l, m, md, key) ==
    LET r == localStorage_removeItem(l, md, key)
    IN  IF r.threw THEN Raise(l, m) ELSE Out(NULL, r.ls, m)

safeStorage_getItem(l, m, md, key) ==
    LET r == localStorage_getItem(l, md, key)
    IN  IF ~r.threw THEN Out(r.val, l, m)
        ELSE Out(IF TruthyStr(m[key]) THEN m[key] ELSE NULL, l, m)

safeStorage_setItem(l, m, md, key, value) ==
    LET r == localStorage_setItem(l, md, key, value)
    IN  IF ~r.threw THEN Out(NULL, r.ls, m)
        ELSE Out(NULL, l, [m EXCEPT ![key] = value])

safeStorage_removeItem(l, m, md, key) ==
    LET r == localStorage_removeItem(l, md, key)
    IN  IF ~r.threw THEN Out(NULL, r.ls, m)
        ELSE Out(NULL, l, [m EXCEPT ![key] = UNDEFINED])

safeStorage_clear(l, m, md) ==
    LET r == localStorage_clear(l, md)
    IN  IF ~r.threw THEN Out(NULL, r.ls, m)
        ELSE Out(NULL, l, [kk \in DOMAIN m |-> UNDEFINED])

----------------------------------------------------------------------------
(* JavaScript values, tagged by type.  An object is a function from its    *)
(* own keys to values; a key that is missing reads as undefined.           *)

Str(s) == [t |-> "str", s |-> s]
Num(n) == [t |-> "num", n |-> n]
Bool(b) == [t |-> "bool", b |-> b]
Arr(q) == [t |-> "arr", a |-> q]
Obj(f) == [t |-> "obj", o |-> f]
JNull == [t |-> "null"]
JUndef == [t |-> "undefined"]
\* a BigInt, which JSON.stringify refuses
JBigInt == [t |-> "bigint"]

\* ToBoolean, as `!x` and `x || y` apply it
Truthy(x) ==
    CASE x.t = "str" -> x.s # ""
      [] x.t = "num" -> x.n # 0
      [] x.t = "bool" -> x.b
      [] x.t \in {"null", "undefined"} -> FALSE
      [] OTHER -> TRUE

\* `const x = e; ...`: e is evaluated once and the rest sees its value
Bind(e, F(_)) == CHOOSE r \in {F(x) : x \in {e}} : TRUE

\* x.key, for x that is neither null nor undefined
Get(x, key) ==
    Bind(x, LAMBDA v : IF v.t = "obj" /\ key \in DOMAIN v.o THEN v.o[key] ELSE JUndef)
\* x.key = val
Set(x, key, val) == Obj((key :> val) @@ x.o)
\* delete x.key
Del(x, key) == Bind(x, LAMBDA v : Obj([f \in DOMAIN v.o \ {key} |-> v.o[f]]))

Min(a, b) == IF a < b THEN a ELSE b
\* a variant that does not cut
Slice0_whole(q, n) == q
\* a variant that keeps the last n elements
Slice0_tail(q, n) == SubSeq(q, Len(q) - Min(Len(q), n) + 1, Len(q))
\* q.slice(0, n)
Slice0(q, n) == SubSeq(q, 1, Min(Len(q), n))

\* What JSON.stringify keeps of a value: a property whose value is undefined
\* is dropped, an undefined array element becomes null.
RECURSIVE ToJSON(_)
ToJSON(x) ==
    CASE x.t = "obj" ->
            Obj([f \in {g \in DOMAIN x.o : x.o[g].t # "undefined"} |-> ToJSON(x.o[f])])
      [] x.t = "arr" ->
            Arr([i \in 1..Len(x.a) |->
                    IF x.a[i].t = "undefined" THEN JNull ELSE ToJSON(x.a[i])])
      [] OTHER -> x

JSON_stringify(x) == [k |-> "json", v |-> ToJSON(x)]

\* JSON.stringify(x) returns: a BigInt anywhere in x is a TypeError
RECURSIVE Stringifiable(_)
Stringifiable(x) ==
    CASE x.t = "bigint" -> FALSE
      [] x.t = "obj" -> \A f \in DOMAIN x.o : Stringifiable(x.o[f])
      [] x.t = "arr" -> \A i \in 1..Len(x.a) : Stringifiable(x.a[i])
      [] OTHER -> TRUE

\* JSON.parse of a non-empty string: raw text is a SyntaxError
JSON_parse(s) ==
    IF s.k = "json" THEN [threw |-> FALSE, val |-> s.v] ELSE [threw |-> TRUE]

----------------------------------------------------------------------------
(* logService (src/unnamed/part_001, lines 1-46)                            *)

MAX_LOGS == 50

getLogs(l, m, md) ==
    Bind(safeStorage_getItem(l, m, md, LOG_STORAGE_KEY), LAMBDA g :
        IF g.threw THEN Arr(<<>>)
        ELSE IF ~TruthyStr(g.val) THEN Arr(<<>>)
        ELSE LET p == JSON_parse(g.val)
             IN  IF p.threw THEN Arr(<<>>) ELSE p.val)

LogOut(l, m, sn, ev) == [threw |-> FALSE, ls |-> l, mem |-> m, serial |-> sn, emitted |-> ev]
LogRaise(l, m, sn) == [threw |-> TRUE, ls |-> l, mem |-> m, serial |-> sn, emitted |-> <<>>]

\* a variant that writes the buffer and dispatches nothing
addLog_try_silent(l, m, md, sn, log) ==
    Bind(getLogs(l, m, md), LAMBDA logs :
    Bind(Set(log, "id", Num(sn + 1)), LAMBDA newLog :
        IF logs.t # "arr" THEN LogRaise(l, m, sn)
        ELSE Bind(Arr(Slice0(<<newLog>> \o logs.a, MAX_LOGS)), LAMBDA updatedLogs :
             Bind(safeStorage_setItem(l, m, md, LOG_STORAGE_KEY,
                                      JSON_stringify(updatedLogs)), LAMBDA w :
                 IF w.threw THEN LogRaise(l, m, sn)
                 ELSE LogOut(w.ls, w.mem, sn + 1, <<>>)))))

\* The body of addLog's try block.  `[newLog, ...logs]` is a TypeError when
\* the parsed blob is not iterable (an object, a number, a boolean, null).
addLog_try(l, m, md, sn, log) ==
    Bind(getLogs(l, m, md), LAMBDA logs :
    Bind(Set(log, "id", Num(sn + 1)), LAMBDA newLog :
        IF logs.t # "arr" THEN LogRaise(l, m, sn)
        ELSE Bind(Arr(Slice0(<<newLog>> \o logs.a, MAX_LOGS)), LAMBDA updatedLogs :
             Bind(safeStorage_setItem(l, m, md, LOG_STORAGE_KEY,
                                      JSON_stringify(updatedLogs)), LAMBDA w :
                 IF w.threw THEN LogRaise(l, m, sn)
                 ELSE LogOut(w.ls, w.mem, sn + 1, <<"hardy-log-update">>)))))

\* a variant whose errors reach the caller
addLog_nocatch(l, m, md, sn, log) == addLog_try(l, m, md, sn, log)

addLog(l, m, md, sn, log) ==
    Bind(addLog_try(l, m, md, sn, log), LAMBDA r :
        IF r.threw THEN LogOut(l, m, sn, <<>>) ELSE r)

\* clearLogs (lines 43-46)
clearLogs(l, m, md) == safeStorage_removeItem(l, m, md, LOG_STORAGE_KEY)

----------------------------------------------------------------------------
(* authLogService (src/unnamed/part_001, lines 48-93)                       *)

MAX_LOGIN_LOGS == 200

LoginLogEntry(id, email, success, reason) ==
    Obj([id |-> Num(id), email |-> Str(email), success |-> Bool(success),
         reason |-> Str(reason)])

\* JSON.parse(safeStorage.getItem(LOG_KEY) || '[]')
parseLoginLogs(l, m, md) ==
    Bind(safeStorage_getItem(l, m, md, LOG_KEY), LAMBDA g :
        IF g.threw THEN [threw |-> TRUE]
        ELSE IF ~TruthyStr(g.val) THEN [threw |-> FALSE, val |-> Arr(<<>>)]
        ELSE JSON_parse(g.val))

getLoginLogs(l, m, md) ==
    Bind(parseLoginLogs(l, m, md), LAMBDA p : IF p.threw THEN Arr(<<>>) ELSE p.val)

\* logLoginAttempt: every failure inside is caught and leaves the log as it was
logLoginAttempt(l, m, md, newEntry) ==
    Bind(parseLoginLogs(l, m, md), LAMBDA p :
        IF p.threw THEN [ls |-> l, mem |-> m]
        ELSE IF p.val.t # "arr" THEN [ls |-> l, mem |-> m]
        ELSE Bind(Arr(Slice0(<<newEntry>> \o p.val.a, MAX_LOGIN_LOGS)), LAMBDA updatedLogs :
             Bind(safeStorage_setItem(l, m, md, LOG_KEY, JSON_stringify(updatedLogs)),
                  LAMBDA w : IF w.threw THEN [ls |-> l, mem |-> m]
                             ELSE [ls |-> w.ls, mem |-> w.mem])))

clearLoginLogs(l, m, md) == safeStorage_removeItem(l, m, md, LOG_KEY)

----------------------------------------------------------------------------
(* storageService (src/services/storageService.ts)                          *)

Announcement(id, title) == Obj([id |-> Str(id), title |-> Str(title), active |-> Bool(TRUE)])
Page(id, type) == Obj([id |-> Str(id), type |-> Str(type)])

DEFAULT_DATA ==
    Obj([schoolName |-> Str("Nova Academy"),
         theme |-> Obj([id |-> Str("default"), accentColor |-> Str("#3b82f6")]),
         announcements |-> Arr(<<Announcement("1", "Science Fair Registration"),
                                 Announcement("2", "Student Art Showcase")>>),
         events |-> Arr(<<Obj([id |-> Str("1"), title |-> Str("Parent Teacher Conf")]),
                          Obj([id |-> Str("2"), title |-> Str("Basketball Finals")]),
                          Obj([id |-> Str("3"), title |-> Str("Jazz Band")])>>),
         eventCategories |-> Arr(<<Obj([id |-> Str("cat-1"), name |-> Str("Academic")])>>),
         tickerItems |-> Arr(<<Str("REMINDER: Early dismissal this Friday at 1:00 PM.")>>),
         liveCamUrls |-> Arr(<<Str("https://webcams.nyctmc.org/1"),
                               Str("https://webcams.nyctmc.org/2")>>),
         enableLiveCam |-> Bool(TRUE),
         pageDuration |-> Num(60),
         pages |-> Arr(<<Page("default-page", "standard")>>),
         socials |-> Obj([phone |-> Str("(555) 123-4567")]),
         emergency |-> Obj([active |-> Bool(FALSE), timestamp |-> Num(0),
                            audioData |-> JUndef]),
         weatherConfig |-> Obj([city |-> Str("Far Rockaway")]),
         customWidgets |-> Arr(<<>>),
         isSafeMode |-> Bool(FALSE)])

CfgOut(v, fromDefault, l, m, sn, ev) ==
    [threw |-> FALSE, val |-> v, fromDefault |-> fromDefault,
     ls |-> l, mem |-> m, serial |-> sn, emitted |-> ev]
CfgRaise(l, m, sn) ==
    [threw |-> TRUE, val |-> JUndef, fromDefault |-> FALSE,
     ls |-> l, mem |-> m, serial |-> sn, emitted |-> <<>>]

\* p => ({...p, type: p.type || 'standard'}) for p that is not null/undefined;
\* spreading a number or a boolean copies no property
MapPage(p) ==
    Bind(p, LAMBDA v :
        IF v.t = "obj"
        THEN Set(v, "type", IF Truthy(Get(v, "type")) THEN Get(v, "type") ELSE Str("standard"))
        ELSE Obj([type |-> Str("standard")]))

\* parsed.pages.map(...): a TypeError when pages has no map method or an
\* element is null
MapPages(pg) ==
    Bind(pg, LAMBDA v :
        IF v.t # "arr" THEN [threw |-> TRUE]
        ELSE IF \E i \in 1..Len(v.a) : v.a[i].t \in {"null", "undefined"}
        THEN [threw |-> TRUE]
        ELSE [threw |-> FALSE, val |-> Arr([i \in 1..Len(v.a) |-> MapPage(v.a[i])])])

OrDefault(x, dd, key) ==
    Bind(x, LAMBDA v : IF ~Truthy(Get(v, key)) THEN Set(v, key, Get(dd, key)) ELSE v)
UndefDefault(x, key, val) ==
    Bind(x, LAMBDA v : IF Get(v, key).t = "undefined" THEN Set(v, key, val) ELSE v)

\* storageService.ts:104-120, the steps before the pages are mapped
MigrateFields(parsed, dd) ==
    Bind(OrDefault(parsed, dd, "theme"), LAMBDA a :
    Bind(OrDefault(a, dd, "tickerItems"), LAMBDA b :
    Bind(UndefDefault(b, "enableLiveCam", Bool(FALSE)), LAMBDA c :
    Bind(UndefDefault(c, "pageDuration", Num(60)), LAMBDA d :
    Bind(IF ~Truthy(Get(d, "liveCamUrls"))
         THEN IF Truthy(Get(d, "liveCamUrl"))
              THEN Set(d, "liveCamUrls", Arr(<<Get(d, "liveCamUrl")>>))
              ELSE Set(d, "liveCamUrls", Get(dd, "liveCamUrls"))
         ELSE d, LAMBDA e :
        Del(Del(Del(e, "liveCamUrl"), "homeLayout"), "homeWidgets"))))))

\* storageService.ts:131-143, the steps after the pages are mapped
MigrateRest(x, dd) ==
    Bind(UndefDefault(x, "socials", Get(dd, "socials")), LAMBDA a :
    Bind(UndefDefault(a, "emergency", Get(dd, "emergency")), LAMBDA b :
    Bind(UndefDefault(b, "weatherConfig", Get(dd, "weatherConfig")), LAMBDA c :
    Bind(OrDefault(c, dd, "eventCategories"), LAMBDA d :
    Bind(OrDefault(d, dd, "customWidgets"), LAMBDA e :
        Set(e, "isSafeMode", Bool(FALSE)))))))

ErrorLog(message) ==
    Obj([level |-> Str("error"), source |-> Str("StorageService"), message |-> Str(message)])

\* the catch block of getStoredData (storageService.ts:145-155)
Recover(l, m, md, dd, sn, message) ==
    Bind(addLog(l, m, md, sn, ErrorLog(message)), LAMBDA a :
        IF a.threw THEN CfgRaise(l, m, sn)
        ELSE CfgOut(Set(dd, "isSafeMode", Bool(TRUE)), TRUE, a.ls, a.mem, a.serial, a.emitted))

\* storageService.ts:100
Incomplete(parsed) ==
    \/ ~Truthy(Get(parsed, "pages"))
    \/ ~Truthy(Get(parsed, "theme"))
    \/ ~Truthy(Get(parsed, "schoolName"))

getStoredData(l, m, md, dd, sn) ==
    Bind(safeStorage_getItem(l, m, md, STORAGE_KEY), LAMBDA g :
        IF g.threw THEN Recover(l, m, md, dd, sn, "storage")
        ELSE IF ~TruthyStr(g.val) THEN CfgOut(dd, TRUE, l, m, sn, <<>>)
        ELSE Bind(JSON_parse(g.val), LAMBDA p :
                 IF p.threw THEN Recover(l, m, md, dd, sn, "syntax")
                 ELSE IF p.val.t \in {"null", "undefined"}
                 THEN Recover(l, m, md, dd, sn, "type")
                 ELSE IF Incomplete(p.val)
                 THEN Recover(l, m, md, dd, sn, "incomplete")
                 ELSE Bind(MigrateFields(p.val, dd), LAMBDA f :
                      Bind(MapPages(Get(f, "pages")), LAMBDA pg :
                          IF pg.threw THEN Recover(l, m, md, dd, sn, "type")
                          ELSE CfgOut(MigrateRest(Set(f, "pages", pg.val), dd), FALSE,
                                      l, m, sn, <<>>)))))

SaveOut(l, m, ev) == [threw |-> FALSE, ls |-> l, mem |-> m, emitted |-> ev]

\* a variant that serializes the object as it is handed in
saveStoredData_keepFlag(l, m, md, d) ==
    IF d.t \in {"null", "undefined"} THEN SaveOut(l, m, <<>>)
    ELSE IF ~Stringifiable(d) THEN SaveOut(l, m, <<>>)
    ELSE Bind(safeStorage_setItem(l, m, md, STORAGE_KEY, JSON_stringify(d)), LAMBDA w :
             IF w.threw THEN SaveOut(l, m, <<>>)
             ELSE SaveOut(w.ls, w.mem, <<"hardy-storage-update">>))

\* The destructuring is a TypeError for null and undefined, JSON.stringify
\* one for a value it cannot serialize; the catch block swallows both.
saveStoredData(l, m, md, d) ==
    IF d.t \in {"null", "undefined"} THEN SaveOut(l, m, <<>>)
    ELSE Bind(Del(d, "isSafeMode"), LAMBDA toSave :
         IF ~Stringifiable(toSave) THEN SaveOut(l, m, <<>>)
         ELSE Bind(safeStorage_setItem(l, m, md, STORAGE_KEY, JSON_stringify(toSave)),
                   LAMBDA w :
                 IF w.threw THEN SaveOut(l, m, <<>>)
                 ELSE SaveOut(w.ls, w.mem, <<"hardy-storage-update">>)))

----------------------------------------------------------------------------
(* Direct use of safeStorage by a caller, with the medium failing and       *)
(* recovering between calls.                                                *)

\* the administration view not opened: nothing imported, nobody logged in
Collections == {"announcements", "events", "pages", "customWidgets"}

InitUiIdle ==
    /\ assigned = [coll \in Collections |-> <<>>]
    /\ importStatus = "idle"
    /\ importStep = 0
    /\ previewData = JNull
    /\ importTimeoutRef = 0
    /\ timers = {}
    /\ imports = {}
    /\ session = JNull
    /\ isAuthenticated = FALSE

KVValues == {EmptyStr, Raw("a"), Raw("b")}

KVRet(op, key, r) ==
    [op |-> op, key |-> key, md |-> medium, threw |-> r.threw, val |-> r.val]

InitKV ==
    /\ ls = [kk \in Keys |-> NULL]
    /\ mem = [kk \in Keys |-> UNDEFINED]
    /\ medium \in Mediums
    /\ kvRet = [op |-> "none", key |-> STORAGE_KEY, md |-> medium,
                threw |-> FALSE, val |-> NULL]
    /\ written = [kk \in Keys |-> NONE]
    /\ sinceClear = [kk \in Keys |-> FALSE]
    /\ allBlocked = (medium = "blocked")
    /\ defaultData = DEFAULT_DATA
    /\ data = JUndef
    /\ annRef = <<>>
    /\ serial = 0
    /\ cfgRet = [op |-> "none"]
    /\ lastSaved = NONE
    /\ clock = 0
    /\ calls = [c \in {1, 2} |-> [pc |-> "idle"]]
    /\ InitUiIdle

KVGetItem(key) ==
    \E r \in {safeStorage_getItem(ls, mem, medium, key)} :
        /\ kvRet' = KVRet("getItem", key, r)
        /\ ls' = r.ls /\ mem' = r.mem
        /\ UNCHANGED <<medium, written, sinceClear, allBlocked>>

KVSetItem(key, value) ==
    \E r \in {safeStorage_setItem(ls, mem, medium, key, value)} :
        /\ kvRet' = KVRet("setItem", key, r)
        /\ ls' = r.ls /\ mem' = r.mem
        /\ written' = [written EXCEPT ![key] = value]
        /\ sinceClear' = [sinceClear EXCEPT ![key] = FALSE]
        /\ UNCHANGED <<medium, allBlocked>>

KVRemoveItem(key) ==
    \E r \in {safeStorage_removeItem(ls, mem, medium, key)} :
        /\ kvRet' = KVRet("removeItem", key, r)
        /\ ls' = r.ls /\ mem' = r.mem
        /\ written' = [written EXCEPT ![key] = NONE]
        /\ UNCHANGED <<medium, sinceClear, allBlocked>>

KVClear ==
    \E r \in {safeStorage_clear(ls, mem, medium)} :
        /\ kvRet' = KVRet("clear", STORAGE_KEY, r)
        /\ ls' = r.ls /\ mem' = r.mem
        /\ written' = [kk \in Keys |-> NONE]
        /\ sinceClear' = [kk \in Keys |-> TRUE]
        /\ UNCHANGED <<medium, allBlocked>>

\* the host environment starts or stops rejecting storage access
MediumChange ==
    /\ \E md \in Mediums \ {medium} :
          /\ medium' = md
          /\ allBlocked' = (allBlocked /\ md = "blocked")
    /\ UNCHANGED <<ls, mem, kvRet, written, sinceClear>>

NextKV ==
    \/ \E key \in KVKeys : KVGetItem(key) /\ UNCHANGED <<cfgVars, fetchVars, uiVars>>
    \/ \E key \in KVKeys, value \in KVValues : KVSetItem(key, value) /\ UNCHANGED <<cfgVars, fetchVars, uiVars>>
    \/ \E key \in KVKeys : KVRemoveItem(key) /\ UNCHANGED <<cfgVars, fetchVars, uiVars>>
    \/ KVClear /\ UNCHANGED <<cfgVars, fetchVars, uiVars>>
    \/ MediumChange /\ UNCHANGED <<cfgVars, fetchVars, uiVars>>

SpecKV == InitKV /\ [][NextKV]_vars

----------------------------------------------------------------------------
(* Start-up values of the parts a specification leaves alone              *)

InitCfgIdle ==
    /\ defaultData = DEFAULT_DATA
    /\ data = JUndef
    /\ annRef = <<>>
    /\ serial = 0
    /\ cfgRet = [op |-> "none"]
    /\ lastSaved = NONE

InitKVIdle ==
    /\ kvRet = [op |-> "none", key |-> STORAGE_KEY, md |-> medium,
                threw |-> FALSE, val |-> NULL]
    /\ written = [kk \in Keys |-> NONE]
    /\ sinceClear = [kk \in Keys |-> FALSE]
    /\ allBlocked = (medium = "blocked")

----------------------------------------------------------------------------
(* safeFetch (src/unnamed/part_001, lines 96-169).  A call runs in three    *)
(* pieces: the cache look-up up to `await fetch`, the continuation after    *)
(* the response arrives up to `await res.json()`, and the continuation      *)
(* after the body is parsed.  A failure of either await runs the catch.     *)

TIMEOUT_MS == 8000
MS_PER_SECOND == 1000

\* a variant that takes an entry as old as the TTL for fresh
IsFresh_inclusive(entry, now, ttlSeconds) ==
    LET ts == Get(entry, "timestamp")
    IN  ts.t = "num" /\ now - ts.n <= ttlSeconds * MS_PER_SECOND

\* now - entry.timestamp < ttlSeconds * 1000; a timestamp that is missing
\* makes the difference NaN, which compares false
IsFresh(entry, now, ttlSeconds) ==
    LET ts == Get(entry, "timestamp")
    IN  ts.t = "num" /\ now - ts.n < ttlSeconds * MS_PER_SECOND

\* step 1 (lines 118-130): the data of a fresh entry, or a miss
cacheLookup(l, m, md, cacheKey, now, ttlSeconds) ==
    LET g == safeStorage_getItem(l, m, md, cacheKey)
    IN  IF g.threw \/ ~TruthyStr(g.val) THEN [hit |-> FALSE]
        ELSE LET p == JSON_parse(g.val)
             IN  IF p.threw THEN [hit |-> FALSE]
                 ELSE IF p.val.t \in {"null", "undefined"} THEN [hit |-> FALSE]
                 ELSE IF IsFresh(p.val, now, ttlSeconds)
                 THEN [hit |-> TRUE, data |-> Get(p.val, "data")]
                 ELSE [hit |-> FALSE]

\* a variant that writes the data without wrapping it in an entry
cacheStore_bare(l, m, md, cacheKey, d, now) ==
    LET w == safeStorage_setItem(l, m, md, cacheKey, JSON_stringify(d))
    IN  IF w.threw THEN [ls |-> l, mem |-> m] ELSE [ls |-> w.ls, mem |-> w.mem]

\* step 3 (lines 144-150): best-effort write of {data, timestamp: now}
cacheStore(l, m, md, cacheKey, d, now) ==
    LET w == safeStorage_setItem(l, m, md, cacheKey,
                                 JSON_stringify(Obj([data |-> d, timestamp |-> Num(now)])))
    IN  IF w.threw THEN [ls |-> l, mem |-> m] ELSE [ls |-> w.ls, mem |-> w.mem]

\* step 5 (line 167): fallbackData || null
orNull(fb) == IF Truthy(fb) THEN fb ELSE JNull

\* a variant of the catch block that prefers a supplied fallback to the cache
onFailure_fallbackFirst(l, m, md, cacheKey, fb) ==
    IF Truthy(fb) THEN [how |-> "fallback", result |-> fb]
    ELSE LET g == safeStorage_getItem(l, m, md, cacheKey)
         IN  IF g.threw \/ ~TruthyStr(g.val) \/ JSON_parse(g.val).threw
             THEN [how |-> "fallback", result |-> JNull]
             ELSE [how |-> "stale", result |-> Get(JSON_parse(g.val).val, "data")]

\* a variant whose stale read has no try/catch of its own
onFailure_nocatch(l, m, md, cacheKey, fb) ==
    LET g == safeStorage_getItem(l, m, md, cacheKey)
    IN  IF g.threw THEN [how |-> "rejected", result |-> JUndef]
        ELSE IF ~TruthyStr(g.val) THEN [how |-> "fallback", result |-> orNull(fb)]
        ELSE LET p == JSON_parse(g.val)
             IN  IF p.threw THEN [how |-> "rejected", result |-> JUndef]
                 ELSE IF p.val.t \in {"null", "undefined"}
                 THEN [how |-> "rejected", result |-> JUndef]
                 ELSE [how |-> "stale", result |-> Get(p.val, "data")]

\* the catch block (lines 153-168): any stored entry, then the fallback
onFailure(l, m, md, cacheKey, fb) ==
    LET g == safeStorage_getItem(l, m, md, cacheKey)
    IN  IF g.threw \/ ~TruthyStr(g.val) THEN [how |-> "fallback", result |-> orNull(fb)]
        ELSE LET p == JSON_parse(g.val)
             IN  IF p.threw THEN [how |-> "fallback", result |-> orNull(fb)]
                 ELSE IF p.val.t \in {"null", "undefined"}
                 THEN [how |-> "fallback", result |-> orNull(fb)]
                 ELSE [how |-> "stale", result |-> Get(p.val, "data")]

\* two callers polling the same resource, whose calls may overlap
Calls == {1, 2}
CacheNames == {"weather"}
TTLs == {1}
Fallbacks == {JUndef, Str("fallback")}
Bodies == {Str("sunny")}
\* the instants at which something happens: just before and at one TTL after
\* start-up, and past the timeout of a call started by then
Instants == {0, 999, 1000, 1000 + TIMEOUT_MS}

IdleCall == [pc |-> "idle"]

Entry(d, ts) == JSON_stringify(Obj([data |-> d, timestamp |-> Num(ts)]))

\* contents of a cache key at start-up
InitCacheBlobs == {NULL, Raw("<html>"), JSON_stringify(JNull), Entry(Str("old"), 0)}

InitFetchIdle ==
    /\ clock = 0
    /\ calls = [c \in Calls |-> IdleCall]

InitFetch ==
    /\ \E cb \in InitCacheBlobs :
          ls = [kk \in Keys |-> IF kk \in CacheKeys THEN cb ELSE NULL]
    /\ mem = [kk \in Keys |-> UNDEFINED]
    /\ medium \in Mediums
    /\ InitKVIdle
    /\ InitCfgIdle
    /\ InitFetchIdle
    /\ InitUiIdle

Finished(c, how, result) ==
    [pc |-> "done", key |-> calls[c].key, ttl |-> calls[c].ttl, fb |-> calls[c].fb,
     now |-> calls[c].now, net |-> calls[c].net, how |-> how, result |-> result]

\* a variant whose catch block evicts the entry of the key
Fails_evicting(c) ==
    /\ \E f \in {onFailure(ls, mem, medium, CacheKey(calls[c].key), calls[c].fb)} :
          calls' = [calls EXCEPT ![c] = Finished(c, f.how, f.result)]
    /\ ls' = [ls EXCEPT ![CacheKey(calls[c].key)] = NULL]
    /\ UNCHANGED <<mem, medium, clock>>

\* the call runs the catch block
Fails(c) ==
    /\ \E f \in {onFailure(ls, mem, medium, CacheKey(calls[c].key), calls[c].fb)} :
          calls' = [calls EXCEPT ![c] = Finished(c, f.how, f.result)]
    /\ UNCHANGED <<storeVars, clock>>

\* safeFetch(key, url, ttlSeconds, fallbackData) up to its first await
StartFetch(c, key, ttlSeconds, fb) ==
    /\ calls[c].pc = "idle"
    /\ \E h \in {cacheLookup(ls, mem, medium, CacheKey(key), clock, ttlSeconds)} :
          calls' = [calls EXCEPT ![c] =
                       IF h.hit
                       THEN [pc |-> "done", key |-> key, ttl |-> ttlSeconds, fb |-> fb,
                             now |-> clock, net |-> 0, how |-> "hit", result |-> h.data]
                       ELSE [pc |-> "fetching", key |-> key, ttl |-> ttlSeconds, fb |-> fb,
                             now |-> clock, net |-> 1]]
    /\ UNCHANGED <<storeVars, clock>>

\* fetch resolves: clearTimeout, then the status check
FetchResponds(c, ok) ==
    /\ calls[c].pc = "fetching"
    /\ IF ok
       THEN /\ calls' = [calls EXCEPT ![c].pc = "body"]
            /\ UNCHANGED <<storeVars, clock>>
       ELSE Fails(c)

\* fetch rejects with a network error
FetchRejects(c) ==
    /\ calls[c].pc = "fetching"
    /\ Fails(c)

\* the 8 s timer fires while fetch is pending: controller.abort()
TimeoutFires(c) ==
    /\ calls[c].pc = "fetching"
    /\ clock >= calls[c].now + TIMEOUT_MS
    /\ Fails(c)

\* res.json() resolves: the entry is written and the data returned
BodyParsed(c, d) ==
    /\ calls[c].pc = "body"
    /\ \E w \in {cacheStore(ls, mem, medium, CacheKey(calls[c].key), d, calls[c].now)} :
          /\ ls' = w.ls /\ mem' = w.mem
    /\ calls' = [calls EXCEPT ![c] = Finished(c, "network", d)]
    /\ UNCHANGED <<medium, clock>>

\* res.json() rejects
BodyFails(c) ==
    /\ calls[c].pc = "body"
    /\ Fails(c)

\* the caller takes the resolved value
Collect(c) ==
    /\ calls[c].pc = "done"
    /\ calls' = [calls EXCEPT ![c] = IdleCall]
    /\ UNCHANGED <<storeVars, clock>>

\* time passes
Tick(t) ==
    /\ t > clock
    /\ clock' = t
    /\ UNCHANGED <<storeVars, calls>>

FetchMediumChange ==
    /\ \E md \in Mediums \ {medium} : medium' = md
    /\ UNCHANGED <<ls, mem, fetchVars>>

NextFetch ==
    \/ \E c \in Calls, key \in CacheNames, ttl \in TTLs, fb \in Fallbacks :
          StartFetch(c, key, ttl, fb) /\ UNCHANGED <<kvVars, cfgVars, uiVars>>
    \/ \E c \in Calls, ok \in BOOLEAN : FetchResponds(c, ok) /\ UNCHANGED <<kvVars, cfgVars, uiVars>>
    \/ \E c \in Calls : FetchRejects(c) /\ UNCHANGED <<kvVars, cfgVars, uiVars>>
    \/ \E c \in Calls : TimeoutFires(c) /\ UNCHANGED <<kvVars, cfgVars, uiVars>>
    \/ \E c \in Calls, d \in Bodies : BodyParsed(c, d) /\ UNCHANGED <<kvVars, cfgVars, uiVars>>
    \/ \E c \in Calls : BodyFails(c) /\ UNCHANGED <<kvVars, cfgVars, uiVars>>
    \/ \E c \in Calls : Collect(c) /\ UNCHANGED <<kvVars, cfgVars, uiVars>>
    \/ \E t \in Instants : Tick(t) /\ UNCHANGED <<kvVars, cfgVars, uiVars>>
    \/ FetchMediumChange /\ UNCHANGED <<kvVars, cfgVars, uiVars>>

SpecFetch == InitFetch /\ [][NextFetch]_vars

\* fallbackData of every kind: none, a non-empty string, and the falsy
\* values '', 0 and false
AnyFallbacks == {JUndef, Str("fallback"), Str(""), Num(0), Bool(FALSE)}

\* contents of a cache key that safeFetch did not write itself
AnyCacheBlobs ==
    InitCacheBlobs \cup {JSON_stringify(Num(5)), JSON_stringify(Obj([timestamp |-> Num(0)]))}

InitOneCall ==
    /\ \E cb \in AnyCacheBlobs :
          ls = [kk \in Keys |-> IF kk \in CacheKeys THEN cb ELSE NULL]
    /\ mem = [kk \in Keys |-> UNDEFINED]
    /\ medium \in Mediums
    /\ InitKVIdle
    /\ InitCfgIdle
    /\ InitFetchIdle
    /\ InitUiIdle

\* one caller, whatever it supplies as fallbackData
NextOneCall ==
    \/ \E key \in CacheNames, ttl \in TTLs, fb \in AnyFallbacks :
          StartFetch(1, key, ttl, fb) /\ UNCHANGED <<kvVars, cfgVars, uiVars>>
    \/ \E ok \in BOOLEAN : FetchResponds(1, ok) /\ UNCHANGED <<kvVars, cfgVars, uiVars>>
    \/ FetchRejects(1) /\ UNCHANGED <<kvVars, cfgVars, uiVars>>
    \/ TimeoutFires(1) /\ UNCHANGED <<kvVars, cfgVars, uiVars>>
    \/ \E d \in Bodies : BodyParsed(1, d) /\ UNCHANGED <<kvVars, cfgVars, uiVars>>
    \/ BodyFails(1) /\ UNCHANGED <<kvVars, cfgVars, uiVars>>
    \/ Collect(1) /\ UNCHANGED <<kvVars, cfgVars, uiVars>>
    \/ \E t \in Instants : Tick(t) /\ UNCHANGED <<kvVars, cfgVars, uiVars>>
    \/ FetchMediumChange /\ UNCHANGED <<kvVars, cfgVars, uiVars>>

SpecOneCall == InitOneCall /\ [][NextOneCall]_vars

----------------------------------------------------------------------------
(* The configuration in use: a view loads it, the admin edits and saves it, *)
(* and every save is broadcast to the listeners of 'hardy-storage-update'.  *)

MaxSerial == 3

\* AppData values handed to saveStoredData
Config(name, empty, safe) ==
    LET a == Set(DEFAULT_DATA, "schoolName", Str(name))
        b == IF empty
             THEN Set(Set(Set(a, "pages", Arr(<<>>)), "announcements", Arr(<<>>)),
                      "events", Arr(<<>>))
             ELSE a
    IN  IF safe = "absent" THEN Del(b, "isSafeMode")
        ELSE Set(b, "isSafeMode", Bool(safe = "true"))

ValidConfigs ==
    {Config(name, empty, safe) :
        name \in {"Nova Academy", ""}, empty \in BOOLEAN, safe \in {"absent", "true", "false"}}

\* what an earlier version of the application left under STORAGE_KEY
LegacyBlob ==
    JSON_stringify(Obj([schoolName |-> Str("Old School"),
                        theme |-> Obj([id |-> Str("legacy")]),
                        announcements |-> Arr(<<Announcement("7", "Welcome")>>),
                        pages |-> Arr(<<Obj([id |-> Str("p1")]),
                                        Page("p2", "grid"),
                                        Page("p3", ""),
                                        Page("p4", "carousel")>>),
                        liveCamUrl |-> Str("http://cam.example/old"),
                        homeLayout |-> Arr(<<>>),
                        homeWidgets |-> Obj([clock |-> Bool(TRUE)])]))

StoredDefault == Del(DEFAULT_DATA, "isSafeMode")

\* contents of STORAGE_KEY at start-up: nothing, text that is damaged, or
\* the blob of an earlier version
InitConfigBlobs ==
    {NULL, EmptyStr, Raw("{oops"),
     JSON_stringify(JNull),
     JSON_stringify(Del(StoredDefault, "pages")),
     JSON_stringify(Del(StoredDefault, "theme")),
     JSON_stringify(Del(StoredDefault, "schoolName")),
     JSON_stringify(Set(StoredDefault, "pages", Num(5))),
     JSON_stringify(Set(StoredDefault, "pages", Arr(<<JNull>>))),
     LegacyBlob}

OldEntry(i) ==
    Obj([id |-> Num(0 - i), level |-> Str("warn"), source |-> Str("Kiosk"),
         message |-> Str("old")])

\* contents of LOG_STORAGE_KEY at start-up
InitLogBlobs ==
    {NULL, Raw("junk"),
     JSON_stringify(Obj([entries |-> Arr(<<>>)])),
     JSON_stringify(Arr(<<OldEntry(1)>>))}

InitConfig ==
    /\ \E cb \in InitConfigBlobs, lb \in InitLogBlobs :
          ls = [kk \in Keys |-> IF kk = STORAGE_KEY THEN cb
                                ELSE IF kk = LOG_STORAGE_KEY THEN lb ELSE NULL]
    /\ mem = [kk \in Keys |-> UNDEFINED]
    /\ medium \in Mediums
    /\ InitKVIdle
    /\ InitCfgIdle
    /\ InitFetchIdle
    /\ InitUiIdle

\* the entries of the system log as an array, none when the blob is no array
LogEntries(l, m, md) ==
    LET x == getLogs(l, m, md) IN IF x.t = "arr" THEN x.a ELSE <<>>

\* which DEFAULT_DATA announcement each element of a loaded configuration is
RefsOf(r) ==
    LET a == Get(r.val, "announcements")
    IN  IF a.t # "arr" THEN <<>>
        ELSE [i \in 1..Len(a.a) |-> IF r.fromDefault THEN i ELSE 0]

\* a stored configuration blob that is damaged: text that does not parse,
\* the JSON value null, or an object without pages, theme or schoolName
Malformed(stored) ==
    /\ TruthyStr(stored)
    /\ \/ stored.k = "raw"
       \/ stored.v.t = "null"
       \/ stored.v.t = "obj" /\ ~({"pages", "theme", "schoolName"} \subseteq DOMAIN stored.v.o)

\* the system log after the call is one new StorageService entry put in
\* front of the entries it held before, cut to MAX_LOGS
AppendedOne(before, after) ==
    /\ after # <<>>
    /\ Get(Head(after), "source") = Str("StorageService")
    /\ \A i \in 1..Len(before) : Head(after) # before[i]
    /\ after = Slice0(<<Head(after)>> \o before, MAX_LOGS)

LoadRet(r) ==
    [op |-> "getStoredData", md |-> medium, threw |-> r.threw, val |-> r.val,
     malformed |-> Malformed(safeStorage_getItem(ls, mem, medium, STORAGE_KEY).val),
     nothingStored |-> (ls[STORAGE_KEY] = NULL /\ mem[STORAGE_KEY] = UNDEFINED),
     defaultsIntact |-> (defaultData = DEFAULT_DATA),
     logArray |-> (getLogs(ls, mem, medium).t = "arr"),
     appendedOne |-> AppendedOne(LogEntries(ls, mem, medium), LogEntries(r.ls, r.mem, medium))]

\* useState(getStoredData()) on mount, refreshFromStorage, applyTheme
Load ==
    \E r \in {getStoredData(ls, mem, medium, defaultData, serial)} :
        /\ r.serial <= MaxSerial
        /\ cfgRet' = LoadRet(r)
        /\ ls' = r.ls /\ mem' = r.mem /\ serial' = r.serial
        /\ IF r.threw THEN UNCHANGED <<data, annRef>>
           ELSE data' = r.val /\ annRef' = RefsOf(r)
        /\ UNCHANGED <<medium, defaultData, lastSaved>>

\* dispatchEvent('hardy-storage-update'): ThemeSync.applyTheme, then the
\* mounted view's refresh, each calling getStoredData
Broadcast(l, m, md, dd, sn) ==
    Bind(getStoredData(l, m, md, dd, sn), LAMBDA t1 :
        IF t1.threw THEN t1 ELSE getStoredData(t1.ls, t1.mem, md, dd, t1.serial))

SaveAndNotify(d) ==
    \E s1 \in {saveStoredData(ls, mem, medium, d)} :
        /\ cfgRet' = [op |-> "saveStoredData", md |-> medium, threw |-> s1.threw,
                      arg |-> d, emitted |-> s1.emitted]
        /\ IF s1.emitted = <<>>
           THEN /\ ls' = s1.ls /\ mem' = s1.mem
                /\ UNCHANGED <<data, annRef, serial>>
           ELSE \E b \in {Broadcast(s1.ls, s1.mem, medium, defaultData, serial)} :
                    /\ ls' = b.ls /\ mem' = b.mem /\ serial' = b.serial
                    /\ IF b.threw THEN UNCHANGED <<data, annRef>>
                       ELSE data' = b.val /\ annRef' = RefsOf(b)
        /\ UNCHANGED <<medium, defaultData>>

\* saveStoredData(c) by any caller
SaveStoredData(c) ==
    /\ SaveAndNotify(c)
    /\ serial' <= MaxSerial
    /\ lastSaved' = IF medium = "ok" THEN c ELSE NONE

\* AdminDashboard.handleSave
HandleSave ==
    /\ data # JUndef
    /\ SaveAndNotify(data)
    /\ serial' <= MaxSerial
    /\ lastSaved' = NONE

\* the title input of an announcement (AppErrorBoundary.tsx:500-504):
\* n = [...data.announcements]; n[i].title = value; setData({...data, announcements: n})
\* The array is copied, its element objects are not.
EditAnnouncementTitle(i, title) ==
    /\ data # JUndef
    /\ Get(data, "announcements").t = "arr"
    /\ i \in 1..Len(Get(data, "announcements").a)
    /\ LET n == Get(data, "announcements").a
           dn == Get(defaultData, "announcements").a
       IN  /\ data' = Set(data, "announcements",
                          Arr([n EXCEPT ![i] = Set(n[i], "title", Str(title))]))
           /\ defaultData' =
                IF annRef[i] = 0 THEN defaultData
                ELSE Set(defaultData, "announcements",
                         Arr([dn EXCEPT ![annRef[i]] = Set(dn[annRef[i]], "title", Str(title))]))
    /\ UNCHANGED <<storeVars, annRef, serial, cfgRet, lastSaved>>

\* the school name input (AppErrorBoundary.tsx:774-779)
SetSchoolName(name) ==
    /\ data # JUndef
    /\ Get(data, "schoolName") # Str(name)
    /\ data' = Set(data, "schoolName", Str(name))
    /\ UNCHANGED <<storeVars, defaultData, annRef, serial, cfgRet, lastSaved>>

\* handleFactoryReset: safeStorage.clear(), then the page is loaded anew
FactoryReset ==
    /\ data # JUndef
    /\ \E r \in {safeStorage_clear(ls, mem, medium)} :
           /\ ls' = r.ls
           /\ mem' = [kk \in Keys |-> UNDEFINED]
    /\ defaultData' = DEFAULT_DATA
    /\ data' = JUndef /\ annRef' = <<>>
    /\ cfgRet' = [op |-> "reload"]
    /\ lastSaved' = NONE
    /\ UNCHANGED <<medium, serial>>

CfgMediumChange ==
    /\ \E md \in Mediums \ {medium} : medium' = md
    /\ UNCHANGED <<ls, mem, cfgVars>>

\* loading and saving over whatever start-up finds in storage
NextConfig ==
    \/ Load /\ UNCHANGED <<kvVars, fetchVars, uiVars>>
    \/ HandleSave /\ UNCHANGED <<kvVars, fetchVars, uiVars>>
    \/ FactoryReset /\ UNCHANGED <<kvVars, fetchVars, uiVars>>
    \/ CfgMediumChange /\ UNCHANGED <<kvVars, fetchVars, uiVars>>

SpecConfig == InitConfig /\ [][NextConfig]_vars

\* saveStoredData of any AppData value, then loads, from an empty store
InitRoundTrip ==
    /\ ls = [kk \in Keys |-> NULL]
    /\ mem = [kk \in Keys |-> UNDEFINED]
    /\ medium \in Mediums
    /\ InitKVIdle
    /\ InitCfgIdle
    /\ InitFetchIdle
    /\ InitUiIdle

NextRoundTrip ==
    \/ Load /\ UNCHANGED <<kvVars, fetchVars, uiVars>>
    \/ \E c \in ValidConfigs : SaveStoredData(c) /\ UNCHANGED <<kvVars, fetchVars, uiVars>>
    \/ CfgMediumChange /\ UNCHANGED <<kvVars, fetchVars, uiVars>>

SpecRoundTrip == InitRoundTrip /\ [][NextRoundTrip]_vars

\* what a caller may hand to saveStoredData at run time: configurations,
\* one that JSON.stringify cannot serialize, null and undefined
SaveArgs ==
    {Config("Nova Academy", FALSE, "false"), Config("Renamed", FALSE, "absent"),
     Set(Config("Renamed", FALSE, "true"), "pageDuration", JBigInt),
     JNull, JUndef}

\* saves of any argument over a stored configuration, or none
InitSave ==
    /\ \E cb \in {NULL, JSON_stringify(StoredDefault)} :
          ls = [kk \in Keys |-> IF kk = STORAGE_KEY THEN cb ELSE NULL]
    /\ mem = [kk \in Keys |-> UNDEFINED]
    /\ medium \in Mediums
    /\ InitKVIdle
    /\ InitCfgIdle
    /\ InitFetchIdle
    /\ InitUiIdle

NextSave ==
    \/ Load /\ UNCHANGED <<kvVars, fetchVars, uiVars>>
    \/ \E c \in SaveArgs : SaveStoredData(c) /\ UNCHANGED <<kvVars, fetchVars, uiVars>>
    \/ CfgMediumChange /\ UNCHANGED <<kvVars, fetchVars, uiVars>>

SpecSave == InitSave /\ [][NextSave]_vars

\* the admin editing the configuration it loaded
InitAdmin ==
    /\ \E cb \in {NULL, Raw("{oops"), LegacyBlob} :
          ls = [kk \in Keys |-> IF kk = STORAGE_KEY THEN cb ELSE NULL]
    /\ mem = [kk \in Keys |-> UNDEFINED]
    /\ medium \in Mediums
    /\ InitKVIdle
    /\ InitCfgIdle
    /\ InitFetchIdle
    /\ InitUiIdle

NextAdmin ==
    \/ Load /\ UNCHANGED <<kvVars, fetchVars, uiVars>>
    \/ HandleSave /\ UNCHANGED <<kvVars, fetchVars, uiVars>>
    \/ \E i \in 1..2, title \in {"Edited"} : EditAnnouncementTitle(i, title) /\ UNCHANGED <<kvVars, fetchVars, uiVars>>
    \/ \E name \in {"", "Renamed"} : SetSchoolName(name) /\ UNCHANGED <<kvVars, fetchVars, uiVars>>
    \/ FactoryReset /\ UNCHANGED <<kvVars, fetchVars, uiVars>>

SpecAdmin == InitAdmin /\ [][NextAdmin]_vars

\* blobs of an earlier version: a camera URL, an empty one, one next to the
\* newer list, and a blob with the home layout keys only
LegacyData(cam) ==
    LET a == Obj([schoolName |-> Str("Old School"),
                  theme |-> Obj([id |-> Str("legacy")]),
                  pages |-> Arr(<<Page("p2", "grid")>>),
                  homeLayout |-> Arr(<<>>),
                  homeWidgets |-> Obj([clock |-> Bool(TRUE)])])
    IN  IF cam = "none" THEN a
        ELSE IF cam = "both"
        THEN Set(Set(a, "liveCamUrl", Str("http://cam.example/old")),
                 "liveCamUrls", Arr(<<Str("http://cam.example/new")>>))
        ELSE Set(a, "liveCamUrl", Str(cam))

LegacyBlobs ==
    {LegacyBlob} \cup
    {JSON_stringify(LegacyData(cam)) : cam \in {"http://cam.example/old", "", "both", "none"}}

InitLegacy ==
    /\ \E cb \in LegacyBlobs :
          ls = [kk \in Keys |-> IF kk = STORAGE_KEY THEN cb ELSE NULL]
    /\ mem = [kk \in Keys |-> UNDEFINED]
    /\ medium \in Mediums
    /\ InitKVIdle
    /\ InitCfgIdle
    /\ InitFetchIdle
    /\ InitUiIdle

\* a view loads the blob of the earlier version, the admin saves what it loaded
NextLegacy ==
    \/ Load /\ UNCHANGED <<kvVars, fetchVars, uiVars>>
    \/ HandleSave /\ UNCHANGED <<kvVars, fetchVars, uiVars>>
    \/ CfgMediumChange /\ UNCHANGED <<kvVars, fetchVars, uiVars>>

SpecLegacy == InitLegacy /\ [][NextLegacy]_vars

----------------------------------------------------------------------------
(* The collections of the configuration as the admin edits them             *)
(* (src/components/AppErrorBoundary.tsx).  A new entity gets                *)
(* Date.now().toString() as its id, an imported one a Math.random() string. *)

MaxAdds == 2
\* Date.now() when the view is mounted
MountInstant == 1000000
MaxTicks == 1
\* what Math.random().toString(36).substr(2, 9) may return
RandomIds == {"k3x9q0a1z", "7w2mplx4c"}

\* (data.coll || [])
OrEmpty(x) == IF Truthy(x) THEN x.a ELSE <<>>

IdsOf(d, coll) ==
    Bind(OrEmpty(Get(d, coll)), LAMBDA q : [i \in 1..Len(q) |-> Get(q[i], "id")])

AddsLeft ==
    Len(assigned["announcements"]) + Len(assigned["events"]) + Len(assigned["pages"])
        + Len(assigned["customWidgets"]) < 6 + MaxAdds

Assign(coll, ids) == [assigned EXCEPT ![coll] = @ \o ids]

\* the "add" button of the announcements tab (line 481): the new entity
\* goes to the front
AddAnnouncement ==
    /\ data # JUndef /\ AddsLeft
    /\ \E e \in {Obj([id |-> Str(ToString(clock)), title |-> Str("New Announcement"),
                      active |-> Bool(TRUE)])} :
          /\ data' = Set(data, "announcements",
                         Arr(<<e>> \o OrEmpty(Get(data, "announcements"))))
          /\ assigned' = Assign("announcements", <<Get(e, "id")>>)
    /\ annRef' = <<0>> \o annRef
    /\ UNCHANGED <<storeVars, defaultData, serial, cfgRet, lastSaved, importVars, authVars>>

\* the "add" buttons of the events, pages and data source tabs (lines 552,
\* 606, 908): the new entity goes to the end
AddAtEnd(coll, title) ==
    /\ data # JUndef /\ AddsLeft
    /\ \E e \in {Obj([id |-> Str(ToString(clock)), title |-> Str(title)])} :
          /\ data' = Set(data, coll, Arr(OrEmpty(Get(data, coll)) \o <<e>>))
          /\ assigned' = Assign(coll, <<Get(e, "id")>>)
    /\ UNCHANGED <<storeVars, defaultData, annRef, serial, cfgRet, lastSaved,
                   importVars, authVars>>

\* the delete buttons (lines 513, 591, 632, 914): n.splice(i, 1)
DeleteAt(coll, i) ==
    /\ data # JUndef
    /\ i \in 1..Len(OrEmpty(Get(data, coll)))
    /\ \E q \in {OrEmpty(Get(data, coll))} :
          data' = Set(data, coll, Arr(SubSeq(q, 1, i - 1) \o SubSeq(q, i + 1, Len(q))))
    /\ annRef' = IF coll = "announcements"
                 THEN SubSeq(annRef, 1, i - 1) \o SubSeq(annRef, i + 1, Len(annRef))
                 ELSE annRef
    /\ UNCHANGED <<storeVars, defaultData, serial, cfgRet, lastSaved, uiVars>>

\* what analyzeNewsletter extracted: one notice and one event
Preview ==
    Obj([announcements |-> Arr(<<Obj([title |-> Str("Bake sale")])>>),
         events |-> Arr(<<Obj([title |-> Str("Field day")])>>)])

\* previewData.coll?.forEach(x => list.unshift({id: Math.random()..., ...}))
Unshifted(list, items, ids) ==
    [i \in 1..Len(items) |-> Set(items[Len(items) + 1 - i], "id", Str(ids[Len(items) + 1 - i]))]
        \o list

\* commitImport (lines 324-356)
CommitImport ==
    /\ data # JUndef
    /\ Truthy(previewData)
    /\ \E pa \in {OrEmpty(Get(previewData, "announcements"))},
          pe \in {OrEmpty(Get(previewData, "events"))} :
       \E ia \in [1..Len(pa) -> RandomIds], ie \in [1..Len(pe) -> RandomIds] :
          /\ data' = Set(Set(data, "announcements",
                             Arr(Unshifted(OrEmpty(Get(data, "announcements")), pa, ia))),
                         "events", Arr(Unshifted(OrEmpty(Get(data, "events")), pe, ie)))
          /\ annRef' = [i \in 1..Len(pa) |-> 0] \o annRef
          /\ assigned' = [assigned EXCEPT
                             !["announcements"] = @ \o [i \in 1..Len(pa) |-> Str(ia[i])],
                             !["events"] = @ \o [i \in 1..Len(pe) |-> Str(ie[i])]]
    /\ previewData' = JNull
    /\ importStatus' = "idle"
    /\ importStep' = 0
    /\ UNCHANGED <<storeVars, defaultData, serial, cfgRet, lastSaved, importTimeoutRef,
                   timers, imports, authVars>>

\* the view mounted over an empty store, an extraction waiting to be verified
InitIds ==
    /\ ls = [kk \in Keys |-> NULL]
    /\ mem = [kk \in Keys |-> UNDEFINED]
    /\ medium = "ok"
    /\ InitKVIdle
    /\ defaultData = DEFAULT_DATA
    /\ data = getStoredData(ls, mem, medium, DEFAULT_DATA, 0).val
    /\ annRef = <<1, 2>>
    /\ serial = 0
    /\ cfgRet = [op |-> "none"]
    /\ lastSaved = NONE
    /\ clock = MountInstant
    /\ calls = [c \in Calls |-> IdleCall]
    /\ assigned = [coll \in Collections |-> IdsOf(DEFAULT_DATA, coll)]
    /\ importStatus = "preview"
    /\ importStep = 5
    /\ previewData = Preview
    /\ importTimeoutRef = 0
    /\ timers = {}
    /\ imports = {}
    /\ session = JNull
    /\ isAuthenticated = FALSE

NextIds ==
    \/ AddAnnouncement /\ UNCHANGED <<kvVars, fetchVars>>
    \/ \E coll \in Collections \ {"announcements"} :
          AddAtEnd(coll, "New") /\ UNCHANGED <<kvVars, fetchVars>>
    \/ \E coll \in Collections : DeleteAt(coll, 1) /\ UNCHANGED <<kvVars, fetchVars>>
    \/ CommitImport /\ UNCHANGED <<kvVars, fetchVars>>
    \/ (clock < MountInstant + MaxTicks /\ Tick(clock + 1))
          /\ UNCHANGED <<kvVars, cfgVars, uiVars>>

SpecIds == InitIds /\ [][NextIds]_vars

----------------------------------------------------------------------------
(* The PDF import of the administration view                                *)
(* (src/components/AppErrorBoundary.tsx, lines 212-301).  Every invocation  *)
(* of handlePdfImport runs as its own asynchronous pipeline; its timer      *)
(* callback reads the importStatus of the render that created the handler.  *)

MaxImports == 2
ANALYSIS_TIMEOUT_MS == 45000
Files == {"none", "oversized", "bulletin"}
ImportInstants == {1000, ANALYSIS_TIMEOUT_MS, ANALYSIS_TIMEOUT_MS + 1000}

\* clearTimeout(h)
ClearTimeout(ts, h) == {t \in ts : t.id # h}

\* if (importTimeoutRef.current) clearTimeout(importTimeoutRef.current)
ClearImportTimeout(ts) == IF importTimeoutRef # 0 THEN ClearTimeout(ts, importTimeoutRef) ELSE ts

\* handlePdfImport up to its first await; the file input is rendered while
\* importStatus is not 'processing' and no preview covers it
HandlePdfImport(file) ==
    /\ importStatus # "processing"
    /\ ~Truthy(previewData)
    /\ serial < MaxImports
    /\ IF file # "bulletin"
       THEN UNCHANGED <<importVars, serial>>
       ELSE /\ serial' = serial + 1
            /\ importStatus' = "processing"
            /\ importStep' = 2
            /\ timers' = timers \cup {[id |-> serial + 1, due |-> clock + ANALYSIS_TIMEOUT_MS,
                                       seen |-> importStatus]}
            /\ importTimeoutRef' = serial + 1
            /\ imports' = imports \cup {[id |-> serial + 1, pc |-> "extract",
                                         cancelled |-> FALSE]}
            /\ UNCHANGED previewData
    /\ UNCHANGED <<storeVars, defaultData, data, annRef, cfgRet, lastSaved, idVars, authVars>>

\* the pipeline goes on after an await
Advance(r, pc, step) ==
    /\ imports' = (imports \ {r}) \cup {[r EXCEPT !.pc = pc]}
    /\ importStep' = step
    /\ UNCHANGED <<storeVars, cfgVars, idVars, authVars, importStatus, previewData,
                   importTimeoutRef, timers>>

\* extractTextFromPdf resolves: setImportStep(3), then the 400 ms pause
ExtractResolves(r) == r \in imports /\ r.pc = "extract" /\ Advance(r, "pause", 3)

\* the pause ends: setImportStep(4), then analyzeNewsletter
PauseEnds(r) == r \in imports /\ r.pc = "pause" /\ Advance(r, "analyze", 4)

\* analyzeNewsletter resolves: the try block ends, then the finally block
AnalyzeResolves(r, result) ==
    /\ r \in imports /\ r.pc = "analyze"
    /\ importStep' = 5
    /\ previewData' = result
    /\ importStatus' = "preview"
    /\ timers' = ClearImportTimeout(timers)
    /\ imports' = imports \ {r}
    /\ UNCHANGED <<storeVars, cfgVars, idVars, authVars, importTimeoutRef>>

\* extractTextFromPdf or analyzeNewsletter rejects: the catch block, then
\* the finally block
ImportRejects(r) ==
    /\ r \in imports /\ r.pc \in {"extract", "analyze"}
    /\ importStatus' = "idle"
    /\ importStep' = 0
    /\ timers' = ClearImportTimeout(timers)
    /\ imports' = imports \ {r}
    /\ UNCHANGED <<storeVars, cfgVars, idVars, authVars, importTimeoutRef, previewData>>

\* cancelImport (lines 260-265).  It reaches no pipeline: the mark on the
\* pipelines in flight is history.
cancelImport(ts) ==
    /\ timers' = ClearImportTimeout(ts)
    /\ importStatus' = "idle"
    /\ importStep' = 0
    /\ previewData' = JNull
    /\ imports' = {[r EXCEPT !.cancelled = TRUE] : r \in imports}
    /\ UNCHANGED importTimeoutRef

\* the "Abort Process" button, rendered while importStatus is 'processing'
CancelImport ==
    /\ importStatus = "processing"
    /\ cancelImport(timers)
    /\ UNCHANGED <<storeVars, cfgVars, idVars, authVars>>

\* the timer callback (lines 276-281)
ImportTimerFires(t) ==
    /\ t \in timers
    /\ clock >= t.due
    /\ IF t.seen = "processing"
       THEN cancelImport(timers \ {t})
       ELSE /\ timers' = timers \ {t}
            /\ UNCHANGED <<importStatus, importStep, previewData, importTimeoutRef, imports>>
    /\ UNCHANGED <<storeVars, cfgVars, idVars, authVars>>

\* the "Discard" button of the preview
DiscardPreview ==
    /\ Truthy(previewData)
    /\ previewData' = JNull
    /\ UNCHANGED <<storeVars, cfgVars, idVars, authVars, importStatus, importStep,
                   importTimeoutRef, timers, imports>>

PipelineStates ==
    [id : 1..MaxImports, pc : {"extract", "pause", "analyze"}, cancelled : BOOLEAN]

TimerStates ==
    [id : 1..MaxImports,
     due : {t + ANALYSIS_TIMEOUT_MS : t \in {0} \cup ImportInstants},
     seen : {"idle", "processing", "preview"}]

InitImport ==
    /\ ls = [kk \in Keys |-> NULL]
    /\ mem = [kk \in Keys |-> UNDEFINED]
    /\ medium = "ok"
    /\ InitKVIdle
    /\ InitCfgIdle
    /\ InitFetchIdle
    /\ InitUiIdle

NextImport ==
    \/ \E file \in Files : HandlePdfImport(file) /\ UNCHANGED <<kvVars, fetchVars>>
    \/ \E r \in PipelineStates : ExtractResolves(r) /\ UNCHANGED <<kvVars, fetchVars>>
    \/ \E r \in PipelineStates : PauseEnds(r) /\ UNCHANGED <<kvVars, fetchVars>>
    \/ \E r \in PipelineStates : AnalyzeResolves(r, Preview) /\ UNCHANGED <<kvVars, fetchVars>>
    \/ \E r \in PipelineStates : ImportRejects(r) /\ UNCHANGED <<kvVars, fetchVars>>
    \/ CancelImport /\ UNCHANGED <<kvVars, fetchVars>>
    \/ \E t \in TimerStates : ImportTimerFires(t) /\ UNCHANGED <<kvVars, fetchVars>>
    \/ DiscardPreview /\ UNCHANGED <<kvVars, fetchVars>>
    \/ \E t \in ImportInstants : Tick(t) /\ UNCHANGED <<kvVars, cfgVars, uiVars>>

SpecImport == InitImport /\ [][NextImport]_vars

----------------------------------------------------------------------------
(* The admin session (src/context/SimpleAuthContext.tsx).  isAuthenticated  *)
(* is computed when the provider renders: after a change of its own state   *)
(* and when App renders anew (a switch between kiosk and admin view).       *)

SESSION_MS == 8 * 60 * 60 * 1000
AuthInstants == {1000, SESSION_MS, SESSION_MS + 1000}

AdminSession(email, now, expiresAt) ==
    Obj([email |-> Str(email), method |-> Str("passcode"), createdAt |-> Num(now),
         expiresAt |-> Num(expiresAt)])

\* Date.now() < x.expiresAt: false when expiresAt is missing
Unexpired(x, now) ==
    Bind(Get(x, "expiresAt"), LAMBDA e : e.t = "num" /\ now < e.n)

\* !!session && Date.now() < session.expiresAt
Authenticated(sess, now) == Truthy(sess) /\ Unexpired(sess, now)

\* the test of the start-up effect (line 25)
Restorable(parsed, now) == Unexpired(parsed, now)

\* the effect run on mount (lines 19-33), after a page load: the session
\* state starts as null
Startup ==
    /\ \E g \in {safeStorage_getItem(ls, mem, medium, SESSION_KEY)} :
          IF ~TruthyStr(g.val)
          THEN /\ session' = JNull
               /\ UNCHANGED <<ls, mem>>
          ELSE \E p \in {JSON_parse(g.val)} :
                  IF ~p.threw /\ p.val.t \notin {"null", "undefined"}
                              /\ Restorable(p.val, clock)
                  THEN /\ session' = p.val
                       /\ UNCHANGED <<ls, mem>>
                  ELSE \E r \in {safeStorage_removeItem(ls, mem, medium, SESSION_KEY)} :
                          /\ session' = JNull
                          /\ ls' = r.ls /\ mem' = r.mem
    /\ isAuthenticated' = Authenticated(session', clock)
    /\ importStatus' = "idle" /\ importStep' = 0 /\ previewData' = JNull
    /\ importTimeoutRef' = 0 /\ timers' = {} /\ imports' = {}
    /\ UNCHANGED <<medium, cfgVars, idVars>>

\* login(email), called by SimpleLogin.handleSubmit when the passcode
\* matches; SimpleLogin is rendered while isAuthenticated is false
Login(email) ==
    /\ ~isAuthenticated
    /\ \E newSession \in {AdminSession(email, clock, clock + SESSION_MS)} :
       \E w \in {safeStorage_setItem(ls, mem, medium, SESSION_KEY,
                                     JSON_stringify(newSession))} :
          /\ ls' = w.ls /\ mem' = w.mem
          /\ session' = newSession
    /\ isAuthenticated' = Authenticated(session', clock)
    /\ UNCHANGED <<medium, cfgVars, idVars, importVars>>

\* logout(), the button of the administration view
Logout ==
    /\ isAuthenticated
    /\ \E r \in {safeStorage_removeItem(ls, mem, medium, SESSION_KEY)} :
          ls' = r.ls /\ mem' = r.mem
    /\ session' = JNull
    /\ isAuthenticated' = Authenticated(session', clock)
    /\ UNCHANGED <<medium, cfgVars, idVars, importVars>>

\* App renders anew (toggleView), and the provider with it
Render ==
    /\ isAuthenticated' = Authenticated(session, clock)
    /\ isAuthenticated' # isAuthenticated
    /\ UNCHANGED <<storeVars, cfgVars, idVars, importVars, session>>

\* what start-up may find under SESSION_KEY
InitSessionBlobs ==
    {NULL, Raw("junk"), JSON_stringify(JNull),
     JSON_stringify(Obj([email |-> Str("a@schools.nyc.gov")])),
     JSON_stringify(AdminSession("a@schools.nyc.gov", 0 - SESSION_MS, 0)),
     JSON_stringify(AdminSession("a@schools.nyc.gov", 0 - 1000, SESSION_MS - 1000))}

InitAuth ==
    /\ \E sb \in InitSessionBlobs :
          ls = [kk \in Keys |-> IF kk = SESSION_KEY THEN sb ELSE NULL]
    /\ mem = [kk \in Keys |-> UNDEFINED]
    /\ medium \in Mediums
    /\ InitKVIdle
    /\ InitCfgIdle
    /\ InitFetchIdle
    /\ InitUiIdle

NextAuth ==
    \/ Startup /\ UNCHANGED <<kvVars, fetchVars>>
    \/ Login("a@schools.nyc.gov") /\ UNCHANGED <<kvVars, fetchVars>>
    \/ Logout /\ UNCHANGED <<kvVars, fetchVars>>
    \/ Render /\ UNCHANGED <<kvVars, fetchVars>>
    \/ \E t \in AuthInstants : Tick(t) /\ UNCHANGED <<kvVars, cfgVars, uiVars>>
    \/ CfgMediumChange /\ UNCHANGED <<kvVars, fetchVars, uiVars>>

SpecAuth == InitAuth /\ [][NextAuth]_vars

----------------------------------------------------------------------------
(* The event log buffers in use.  An entry's id (Math.random) and timestamp *)
(* are stood for by the number the caller of the action hands in.           *)

MaxAppends == 60

SystemLog(message) ==
    Obj([level |-> Str("warn"), source |-> Str("Kiosk"), message |-> Str(message)])

\* addLog(log), the new entry getting id sn + 1
AddLog(sn) ==
    /\ \E r \in {addLog(ls, mem, medium, sn, SystemLog("widget failed"))} :
          ls' = r.ls /\ mem' = r.mem
    /\ UNCHANGED medium

ClearLogs ==
    /\ \E r \in {clearLogs(ls, mem, medium)} : ls' = r.ls /\ mem' = r.mem
    /\ UNCHANGED medium

\* SimpleLogin: logLoginAttempt(email, success, reason)
LogLoginAttempt(id, success, reason) ==
    /\ \E r \in {logLoginAttempt(ls, mem, medium,
                                  LoginLogEntry(id, "a@school.example", success, reason))} :
          ls' = r.ls /\ mem' = r.mem
    /\ UNCHANGED medium

ClearLoginLogs ==
    /\ \E r \in {clearLoginLogs(ls, mem, medium)} : ls' = r.ls /\ mem' = r.mem
    /\ UNCHANGED medium

InitLogs ==
    /\ ls = [kk \in Keys |-> NULL]
    /\ mem = [kk \in Keys |-> UNDEFINED]
    /\ medium \in Mediums
    /\ InitKVIdle
    /\ InitCfgIdle
    /\ InitFetchIdle
    /\ InitUiIdle

\* appends to the system log, numbered in the order they are made
NextSysLog ==
    /\ serial < MaxAppends
    /\ AddLog(serial)
    /\ serial' = serial + 1
    /\ UNCHANGED <<defaultData, data, annRef, cfgRet, lastSaved, kvVars, fetchVars, uiVars>>

SpecSysLog == InitLogs /\ [][NextSysLog]_vars

\* any sequence of appends and clears of the two buffers
NextBuffers ==
    \/ AddLog(0) /\ UNCHANGED <<kvVars, cfgVars, fetchVars, uiVars>>
    \/ ClearLogs /\ UNCHANGED <<kvVars, cfgVars, fetchVars, uiVars>>
    \/ LogLoginAttempt(1, FALSE, "wrong_passcode") /\ UNCHANGED <<kvVars, cfgVars, fetchVars, uiVars>>
    \/ ClearLoginLogs /\ UNCHANGED <<kvVars, cfgVars, fetchVars, uiVars>>

SpecBuffers == InitLogs /\ [][NextBuffers]_vars

\* The notifications of the two buffers, as the administration view sees
\* them: its listener of 'hardy-log-update' runs setSystemLogs(getLogs())
\* while dispatchEvent is executing.
ListenerReads(ev, l, m, md) ==
    [i \in 1..Len(ev) |-> getLogs(l, m, md)]

\* addLog(log) with the listener attached
AddLogObserved(sn) ==
    /\ sn < MaxSerial
    /\ \E log \in {SystemLog("widget failed")} :
       \E r \in {addLog(ls, mem, medium, sn, log)} :
          /\ ls' = r.ls /\ mem' = r.mem /\ serial' = r.serial
          /\ cfgRet' = [op |-> "addLog", md |-> medium, threw |-> r.threw,
                        newLog |-> Set(log, "id", Num(sn + 1)),
                        wrote |-> (r.ls # ls \/ r.mem # mem),
                        emitted |-> r.emitted,
                        seen |-> ListenerReads(r.emitted, r.ls, r.mem, medium)]
    /\ UNCHANGED <<medium, defaultData, data, annRef, lastSaved>>

\* logLoginAttempt(email, success, reason) with the listener attached: the
\* function dispatches no event.  The appends of both buffers are counted
\* in serial.
LogLoginAttemptObserved(id, success, reason) ==
    /\ serial < MaxSerial
    /\ serial' = serial + 1
    /\ \E e \in {LoginLogEntry(id, "a@schools.nyc.gov", success, reason)} :
       \E r \in {logLoginAttempt(ls, mem, medium, e)} :
          /\ ls' = r.ls /\ mem' = r.mem
          /\ cfgRet' = [op |-> "logLoginAttempt", md |-> medium,
                        wrote |-> (r.ls # ls \/ r.mem # mem),
                        emitted |-> <<>>, seen |-> <<>>]
    /\ UNCHANGED <<medium, defaultData, data, annRef, lastSaved>>

InitLogEvents ==
    /\ \E sb \in InitLogBlobs, lb \in InitLogBlobs :
          ls = [kk \in Keys |-> IF kk = LOG_STORAGE_KEY THEN sb
                                ELSE IF kk = LOG_KEY THEN lb ELSE NULL]
    /\ mem = [kk \in Keys |-> UNDEFINED]
    /\ medium \in Mediums
    /\ InitKVIdle
    /\ InitCfgIdle
    /\ InitFetchIdle
    /\ InitUiIdle

NextLogEvents ==
    \/ AddLogObserved(serial) /\ UNCHANGED <<kvVars, fetchVars, uiVars>>
    \/ \E ok \in BOOLEAN :
          LogLoginAttemptObserved(1, ok, IF ok THEN "success" ELSE "wrong_passcode")
              /\ UNCHANGED <<kvVars, fetchVars, uiVars>>
    \/ CfgMediumChange /\ UNCHANGED <<kvVars, fetchVars, uiVars>>

SpecLogEvents == InitLogEvents /\ [][NextLogEvents]_vars

----------------------------------------------------------------------------
(* Claims about safeStorage                                                 *)

\* C5: when the medium rejects every read and every write, setItem(k, v)
\* followed by getItem(k) returns v, for every string v (the empty one too).
C5_BlockedSetThenGet ==
    (allBlocked /\ kvRet.op = "getItem" /\ written[kvRet.key] # NONE)
        => kvRet.val = written[kvRet.key]

\* C6: under any pattern of medium failures, getItem(k) returns the value of
\* the most recent setItem(k, v) not followed by removeItem(k) or clear().
\* Stated for non-empty v, so that it does not rest on the case of C5.
C6_GetReturnsLastSet ==
    (kvRet.op = "getItem" /\ written[kvRet.key] \notin {NONE, EmptyStr})
        => kvRet.val = written[kvRet.key]

\* C7: after clear() returns, getItem(k) returns null for every key k (until
\* k is set again), whether the medium works or fails at either call.
C7_ClearEmptiesBoth ==
    (kvRet.op = "getItem" /\ sinceClear[kvRet.key]) => kvRet.val = NULL

\* C8: none of getItem, setItem, removeItem and clear ever throws; a failure
\* of the medium is caught and the call is served by the in-process mapping.
C8_SafeStorageNeverThrows ==
    /\ ~kvRet.threw
    /\ (kvRet.md = "blocked" /\ kvRet.op = "getItem" /\ TruthyStr(mem[kvRet.key]))
          => kvRet.val = mem[kvRet.key]
    /\ (kvRet.md = "blocked" /\ kvRet.op = "setItem")
          => mem[kvRet.key] = written[kvRet.key]
    /\ (kvRet.md = "blocked" /\ kvRet.op = "removeItem")
          => mem[kvRet.key] = UNDEFINED
    /\ (kvRet.md = "blocked" /\ kvRet.op = "clear")
          => \A kk \in Keys : mem[kk] = UNDEFINED

\* a removeItem served by the mapping while the medium, which still holds
\* the key, rejects the call
C8_Witness ==
    /\ kvRet.md = "blocked" /\ kvRet.op = "removeItem" /\ ~kvRet.threw
    /\ ls[kvRet.key] # NULL /\ mem[kvRet.key] = UNDEFINED

----------------------------------------------------------------------------
(* Claims about getStoredData / saveStoredData                              *)

\* C1: getStoredData() after saveStoredData(c) returns a value structurally
\* equal to c except that isSafeMode is false, for every valid AppData c
\* (empty schoolName, empty arrays and isSafeMode = true included).  Stated
\* for a save and a load made while the medium works; properties whose value
\* is undefined do not count in the comparison.
C1_RoundTrip ==
    (cfgRet.op = "getStoredData" /\ cfgRet.md = "ok" /\ lastSaved # NONE)
        => /\ ~cfgRet.threw
           /\ ToJSON(cfgRet.val) = ToJSON(Set(lastSaved, "isSafeMode", Bool(FALSE)))

\* C2: for every malformed configuration blob, one getStoredData() returns
\* the default configuration with isSafeMode = true and appends exactly one
\* entry to the system log, whatever the system-log blob held before.
\* Stated for a working medium and an unmodified DEFAULT_DATA.
C2_MalformedRecovers ==
    (cfgRet.op = "getStoredData" /\ cfgRet.malformed /\ cfgRet.md = "ok"
        /\ cfgRet.defaultsIntact)
        => /\ ~cfgRet.threw
           /\ cfgRet.val = Set(DEFAULT_DATA, "isSafeMode", Bool(TRUE))
           /\ cfgRet.appendedOne

\* C3: getStoredData() never raises: for every content of the configuration
\* blob and of the system-log blob, and every failure pattern of the medium,
\* it returns a configuration object.
C3_LoadNeverRaises ==
    cfgRet.op = "getStoredData"
        => /\ ~cfgRet.threw
           /\ cfgRet.val.t = "obj"
           /\ {"pages", "theme", "schoolName", "isSafeMode"} \subseteq DOMAIN cfgRet.val.o
           /\ Get(cfgRet.val, "isSafeMode").t = "bool"

\* a damaged configuration blob loaded while the system-log blob holds an
\* object (so that addLog fails inside) and writes are rejected
C3_Witness ==
    /\ cfgRet.op = "getStoredData" /\ ~cfgRet.threw
    /\ cfgRet.malformed /\ ~cfgRet.logArray /\ cfgRet.md = "quota"
    /\ Get(cfgRet.val, "isSafeMode") = Bool(TRUE)

\* C4: whenever no configuration blob is stored, getStoredData() returns the
\* hardcoded default with isSafeMode = false, also after earlier loads and
\* in-place edits of configurations returned earlier.
C4_AbsentGivesDefault ==
    (cfgRet.op = "getStoredData" /\ cfgRet.nothingStored)
        => /\ ~cfgRet.threw
           /\ cfgRet.val = DEFAULT_DATA

----------------------------------------------------------------------------
(* Claims about safeFetch.  "Stored under CACHE_PREFIX + key" is what       *)
(* safeStorage.getItem gives for that key at the time the call reads it.    *)

StoredEntry(key) == safeStorage_getItem(ls, mem, medium, CacheKey(key)).val
IsEntry(stored) == TruthyStr(stored) /\ stored.k = "json" /\ stored.v.t = "obj"
AgeOf(stored, now) == now - Get(stored.v, "timestamp").n

\* C9: safeFetch returns the cached data without a network request if and
\* only if an entry is stored under the key and now - timestamp is less than
\* ttlSeconds * 1000; an entry exactly as old as the TTL, or older, causes
\* exactly one network request.
C9_FreshHitIffNoNetwork ==
    [][\A c \in Calls :
        /\ \A key \in CacheNames, ttl \in TTLs, fb \in Fallbacks :
              StartFetch(c, key, ttl, fb) =>
                 IF /\ IsEntry(StoredEntry(key))
                    /\ Get(StoredEntry(key).v, "timestamp").t = "num"
                    /\ AgeOf(StoredEntry(key), clock) < ttl * 1000
                 THEN /\ calls'[c].pc = "done" /\ calls'[c].net = 0
                      /\ calls'[c].result = Get(StoredEntry(key).v, "data")
                 ELSE /\ calls'[c].pc = "fetching" /\ calls'[c].net = 1
        /\ (calls[c].pc \in {"fetching", "body"} /\ calls'[c].pc # "idle")
              => calls'[c].net = 1
      ]_vars

\* one call served from an entry 999 ms old, another sent to the network by
\* an entry exactly 1000 ms old, both with a TTL of one second
C9_Witness ==
    \E c1, c2 \in Calls :
        /\ calls[c1].pc = "done" /\ calls[c1].how = "hit" /\ calls[c1].net = 0
        /\ calls[c1].now = 999 /\ calls[c1].ttl = 1
        /\ calls[c2].pc = "fetching" /\ calls[c2].ttl = 1
        /\ IsEntry(StoredEntry(calls[c2].key))
        /\ AgeOf(StoredEntry(calls[c2].key), calls[c2].now) = 1000

\* C10: when an expired entry exists for the key and the network step fails
\* (network error, non-2xx status, timeout, body parse error), safeFetch
\* returns the stale entry's data and not the supplied fallback.
C10_StaleBeatsFallback ==
    [][\A c \in Calls :
        (/\ calls[c].pc \in {"fetching", "body"}
         /\ calls'[c].pc = "done" /\ calls'[c].how # "network"
         /\ IsEntry(StoredEntry(calls[c].key))
         /\ Get(StoredEntry(calls[c].key).v, "timestamp").t = "num"
         /\ AgeOf(StoredEntry(calls[c].key), calls[c].now) >= calls[c].ttl * 1000)
            => calls'[c].result = Get(StoredEntry(calls[c].key).v, "data")
      ]_vars

\* a call that found the entry of start-up expired, timed out, and returned
\* that entry's data although a fallback was supplied
C10_Witness ==
    \E c \in Calls :
        /\ calls[c].pc = "done" /\ calls[c].how = "stale"
        /\ calls[c].fb = Str("fallback") /\ calls[c].result = Str("old")
        /\ calls[c].now >= calls[c].ttl * 1000
        /\ clock >= calls[c].now + TIMEOUT_MS
        /\ StoredEntry(calls[c].key) = Entry(Str("old"), 0)

\* C11: when no cache entry exists for the key and the network step fails,
\* safeFetch returns the supplied fallback, whatever its value (0, false and
\* the empty string included), and null only when no fallback was supplied.
C11_FallbackReturned ==
    [][\A c \in Calls :
        (/\ calls[c].pc \in {"fetching", "body"}
         /\ calls'[c].pc = "done" /\ calls'[c].how # "network"
         /\ StoredEntry(calls[c].key) = NULL)
            => calls'[c].result = IF calls[c].fb = JUndef THEN JNull ELSE calls[c].fb
      ]_vars

\* C12: every call to safeFetch eventually returns: an exchange not completed
\* within 8 seconds of the call, be it the response headers or the response
\* body that is late, is aborted and the call takes the stale-cache /
\* fallback path.  Stated as: a call still pending when its 8 seconds are
\* over can be ended by the timer.
C12_LateExchangeAborted ==
    \A c \in Calls :
        (calls[c].pc \in {"fetching", "body"} /\ clock >= calls[c].now + TIMEOUT_MS)
            => ENABLED TimeoutFires(c)

----------------------------------------------------------------------------
(* Claims about the event log buffers, stated for a medium that works       *)

\* C14: starting from an empty system log, after n calls to addLog the list
\* returned by getLogs() holds exactly min(n, 50) entries, the most recently
\* appended ones, newest first.  The n-th entry appended carries id n.
C14_NewestFifty ==
    medium = "ok"
        => /\ getLogs(ls, mem, medium).t = "arr"
           /\ Len(getLogs(ls, mem, medium).a) = Min(serial, MAX_LOGS)
           /\ \A i \in 1..Len(getLogs(ls, mem, medium).a) :
                 Get(getLogs(ls, mem, medium).a[i], "id") = Num(serial + 1 - i)

\* sixty appends made: fifty entries, ids 60 down to 11
C14_Witness ==
    /\ medium = "ok" /\ serial = 60
    /\ Len(getLogs(ls, mem, medium).a) = 50
    /\ Get(getLogs(ls, mem, medium).a[1], "id") = Num(60)
    /\ Get(getLogs(ls, mem, medium).a[50], "id") = Num(11)

StoredLen(blob) == IF blob.k = "json" /\ blob.v.t = "arr" THEN Len(blob.v.a) ELSE 0

\* C15: in every state reachable by any sequence of addLog, clearLogs,
\* logLoginAttempt and clearLoginLogs calls, the system-log buffer has at
\* most 50 entries and the login-log buffer at most 200, in localStorage and
\* in the in-process mapping alike.
C15_BuffersBounded ==
    /\ StoredLen(ls[LOG_STORAGE_KEY]) <= MAX_LOGS
    /\ StoredLen(mem[LOG_STORAGE_KEY]) <= MAX_LOGS
    /\ StoredLen(ls[LOG_KEY]) <= MAX_LOGIN_LOGS
    /\ StoredLen(mem[LOG_KEY]) <= MAX_LOGIN_LOGS

\* both buffers full, and a further append to each leaves them so
C15_Witness ==
    /\ Len(getLogs(ls, mem, medium).a) = MAX_LOGS
    /\ Len(getLoginLogs(ls, mem, medium).a) = MAX_LOGIN_LOGS
    /\ ENABLED (AddLog(0) /\ ls' = ls /\ mem' = mem)
    /\ ENABLED (LogLoginAttempt(1, FALSE, "wrong_passcode") /\ ls' = ls /\ mem' = mem)

----------------------------------------------------------------------------
(* Further claims about saveStoredData / getStoredData                      *)

HasFlag(blob) ==
    blob.k = "json" /\ blob.v.t = "obj" /\ "isSafeMode" \in DOMAIN blob.v.o

\* C16: the stored configuration blob never contains the isSafeMode field:
\* after any sequence of saveStoredData calls, with any argument (a
\* configuration whose isSafeMode is true included), the value under the
\* configuration key has no isSafeMode key.
C16_FlagNeverStored ==
    ~HasFlag(ls[STORAGE_KEY]) /\ ~HasFlag(mem[STORAGE_KEY])

\* a configuration flagged isSafeMode = true was saved and is stored
C16_Witness ==
    /\ cfgRet.op = "saveStoredData" /\ cfgRet.md = "ok"
    /\ Get(cfgRet.arg, "isSafeMode") = Bool(TRUE)
    /\ ls[STORAGE_KEY] = JSON_stringify(Del(cfgRet.arg, "isSafeMode"))

\* C17: saveStoredData writes the blob before it broadcasts: every
\* subscriber of 'hardy-storage-update' that calls getStoredData() when
\* notified obtains the configuration just saved, and the notification is
\* delivered before saveStoredData returns.  Stated for a working medium.
C17_SubscribersSeeSaved ==
    (cfgRet.op = "saveStoredData" /\ cfgRet.md = "ok" /\ cfgRet.arg.t = "obj")
        => /\ cfgRet.emitted = <<"hardy-storage-update">>
           /\ ToJSON(data) = ToJSON(Set(cfgRet.arg, "isSafeMode", Bool(FALSE)))

\* C19: a parsable blob in which pages, theme and schoolName are all
\* present, whatever their values (an empty pages array or an empty
\* schoolName included), loads with isSafeMode = false and with its own
\* pages and schoolName, not the defaults.
C19_PresentKeysLoad ==
    (/\ cfgRet.op = "getStoredData" /\ cfgRet.md = "ok" /\ lastSaved # NONE
     /\ {"pages", "theme", "schoolName"} \subseteq DOMAIN lastSaved.o)
        => /\ ~cfgRet.threw
           /\ Get(cfgRet.val, "isSafeMode") = Bool(FALSE)
           /\ Get(cfgRet.val, "schoolName") = Get(lastSaved, "schoolName")
           /\ Get(cfgRet.val, "pages") = Get(lastSaved, "pages")

PageTypes == {Str("standard"), Str("grid")}

\* C20: after a successful getStoredData(), the type of every page in the
\* result is 'standard' or 'grid': a stored page whose type is missing,
\* empty or any other value is normalized to 'standard'.
C20_PageTypesDefined ==
    (cfgRet.op = "getStoredData" /\ ~cfgRet.threw
        /\ Get(cfgRet.val, "isSafeMode") = Bool(FALSE)
        /\ Get(cfgRet.val, "pages").t = "arr")
        => \A i \in 1..Len(Get(cfgRet.val, "pages").a) :
              Get(Get(cfgRet.val, "pages").a[i], "type") \in PageTypes

----------------------------------------------------------------------------
(* Further claims about safeFetch                                           *)

\* C18: on a successful network response safeFetch stores the entry
\* {data, timestamp: now} under CACHE_PREFIX + key and returns the parsed
\* data; when the medium rejects the write the entry goes to the in-process
\* mapping and the call still returns the parsed data.
C18_StoresAndReturns ==
    [][\A c \in Calls :
        (calls[c].pc = "body" /\ calls'[c].pc = "done" /\ calls'[c].how = "network")
            => /\ calls'[c].result \in Bodies
               /\ IF medium = "ok"
                  THEN ls'[CacheKey(calls[c].key)] = Entry(calls'[c].result, calls[c].now)
                  ELSE mem'[CacheKey(calls[c].key)] = Entry(calls'[c].result, calls[c].now)
      ]_vars

\* a call started at 999 ms returned the body it parsed later, while writes
\* were rejected: the entry, stamped 999, is in the in-process mapping
C18_Witness ==
    \E c \in Calls :
        /\ calls[c].pc = "done" /\ calls[c].how = "network" /\ calls[c].now = 999
        /\ clock > calls[c].now /\ medium = "quota"
        /\ mem[CacheKey(calls[c].key)] = Entry(calls[c].result, 999)
        /\ ls[CacheKey(calls[c].key)] # Entry(calls[c].result, 999)

----------------------------------------------------------------------------
(* Claims about the fields of earlier versions, stated for a medium that    *)
(* works                                                                    *)

LegacyKeys == {"liveCamUrl", "homeLayout", "homeWidgets"}

HoldsKey(blob, keys) ==
    blob.k = "json" /\ blob.v.t = "obj" /\ (keys \cap DOMAIN blob.v.o) # {}

\* C21: legacy fields are migrated on read and never persisted again: for a
\* stored blob holding liveCamUrl (and no liveCamUrls), homeLayout or
\* homeWidgets, getStoredData() returns liveCamUrls = [liveCamUrl] and none
\* of the three legacy keys, and after saveStoredData of that result the
\* stored blob contains none of them.
C21_LegacyMigrated ==
    [][/\ (Load /\ medium = "ok" /\ HoldsKey(ls[STORAGE_KEY], LegacyKeys))
            => /\ (LegacyKeys \cap DOMAIN data'.o) = {}
               /\ (HoldsKey(ls[STORAGE_KEY], {"liveCamUrl"})
                      /\ ~HoldsKey(ls[STORAGE_KEY], {"liveCamUrls"}))
                    => Get(data', "liveCamUrls")
                         = Arr(<<Get(ls[STORAGE_KEY].v, "liveCamUrl")>>)
       /\ (HandleSave /\ medium = "ok")
            => ~HoldsKey(ls'[STORAGE_KEY], LegacyKeys)
      ]_vars

----------------------------------------------------------------------------
(* Claims about the cache entries of safeFetch                              *)

\* C22: a failed or aborted network step never changes cache state: when
\* the network step of safeFetch fails (network error, non-2xx status,
\* timeout/abort, body parse error) the value stored under
\* CACHE_PREFIX + key is the same after the call as before it; an entry is
\* written only after a response that is ok and fully parsed.
C22_FailureKeepsCache ==
    [][/\ \A c \in Calls :
            (calls[c].pc \in {"fetching", "body"} /\ calls'[c].pc = "done"
                /\ calls'[c].how # "network")
                => \A ck \in CacheKeys : ls'[ck] = ls[ck] /\ mem'[ck] = mem[ck]
       /\ (\E ck \in CacheKeys : ls'[ck] # ls[ck] \/ mem'[ck] # mem[ck])
            => \E c \in Calls : /\ calls[c].pc = "body"
                                /\ calls'[c].pc = "done"
                                /\ calls'[c].how = "network"
      ]_vars

\* a call whose exchange was aborted by the timer returned the stale entry,
\* which is still stored as it was
C22_Witness ==
    \E c \in Calls :
        /\ calls[c].pc = "done" /\ calls[c].how = "stale" /\ calls[c].net = 1
        /\ clock >= calls[c].now + TIMEOUT_MS
        /\ medium = "ok"
        /\ ls[CacheKey(calls[c].key)] = Entry(Str("old"), 0)

TimestampOf(stored) == Get(stored.v, "timestamp").n

\* C23: a cache entry is only ever superseded by a newer entry under the
\* same key: under every interleaving of safeFetch calls (two calls on the
\* same key whose network steps overlap included), the timestamp of the
\* entry stored under a key never decreases.
C23_TimestampNeverDecreases ==
    [][\A ck \in CacheKeys :
          (IsEntry(ls[ck]) /\ IsEntry(ls'[ck]))
              => TimestampOf(ls'[ck]) >= TimestampOf(ls[ck])
      ]_vars

----------------------------------------------------------------------------
(* Claims about the notifications of the event log buffers                  *)

\* C24: every successful addLog emits exactly one 'hardy-log-update'
\* notification, after the new buffer has been written (on a working medium
\* the listener reads a buffer headed by the new entry); an addLog that
\* fails inside emits none; logLoginAttempt never emits any notification.
C24_OneNotificationPerAppend ==
    /\ cfgRet.op = "addLog"
         => /\ ~cfgRet.threw
            /\ IF cfgRet.wrote
               THEN /\ cfgRet.emitted = <<"hardy-log-update">>
                    /\ cfgRet.md = "ok"
                         => /\ cfgRet.seen[1].t = "arr"
                            /\ Head(cfgRet.seen[1].a) = cfgRet.newLog
               ELSE cfgRet.emitted = <<>>
    /\ cfgRet.op = "logLoginAttempt" => cfgRet.emitted = <<>>

\* both happened: an append that was written and notified, over a buffer
\* that held an entry before, and a login entry that was written
C24_Witness ==
    /\ cfgRet.op = "logLoginAttempt" /\ cfgRet.wrote /\ cfgRet.md = "ok"
    /\ getLoginLogs(ls, mem, medium).t = "arr"
    /\ getLogs(ls, mem, medium).t = "arr"
    /\ Len(getLogs(ls, mem, medium).a) >= 2
    /\ serial >= 1

----------------------------------------------------------------------------
(* Claims about failures of saveStoredData                                  *)

\* the call meets a failure: the argument cannot be destructured or
\* serialized, or localStorage rejects the write
SaveFails(c, md) ==
    \/ c.t \in {"null", "undefined"}
    \/ ~Stringifiable(c)
    \/ localStorage_setItem(ls, md, STORAGE_KEY, EmptyStr).threw

\* C25: saveStoredData never raises to its caller: a failure while
\* serializing or writing is caught, and in that case the stored blob is
\* left unchanged and no 'hardy-storage-update' notification is emitted.
C25_SaveFailureSwallowed ==
    [][\A c \in SaveArgs :
          SaveStoredData(c)
              => /\ ~cfgRet'.threw
                 /\ SaveFails(c, medium)
                      => /\ cfgRet'.emitted = <<>>
                         /\ ls'[STORAGE_KEY] = ls[STORAGE_KEY]
                         /\ mem'[STORAGE_KEY] = mem[STORAGE_KEY]
      ]_vars

----------------------------------------------------------------------------
(* Claims about the ids of the entities                                     *)

Distinct(q) == \A i, j \in 1..Len(q) : i # j => q[i] # q[j]

\* C26: within each collection of the configuration (announcements,
\* events, pages, customWidgets) the ids of the entities are pairwise
\* distinct after any sequence of admin add, delete and import-commit
\* operations, and an id once assigned is never assigned to a later entity
\* (two adds within the same clock millisecond and adds after a delete
\* included).
C26_IdsDistinct ==
    data # JUndef
        => \A coll \in Collections :
              /\ Distinct(IdsOf(data, coll))
              /\ Distinct(assigned[coll])

----------------------------------------------------------------------------
(* Claims about the PDF import                                              *)

\* C27: the import pipeline has a caller-side timeout: if a PDF import
\* started by handlePdfImport is still processing 45 seconds
\* (ANALYSIS_TIMEOUT_MS) after it started, the timer callback cancels it, so
\* importStatus returns to 'idle' and importStep to 0.
C27_ImportTimesOut ==
    [][\A t \in TimerStates :
          (/\ ImportTimerFires(t)
           /\ importStatus = "processing"
           /\ \E r \in imports : r.id = t.id)
              => importStatus' = "idle" /\ importStep' = 0
      ]_vars

\* C28: after cancelImport is invoked while an import is processing,
\* importStatus stays 'idle' and previewData stays null until the user
\* starts a new import: the completion of the cancelled pipeline's pending
\* extractTextFromPdf / analyzeNewsletter calls never moves the state to
\* 'preview'.
C28_CancelledStaysIdle ==
    [][(/\ \E r \in imports : r.cancelled
        /\ importStatus = "idle" /\ previewData = JNull
        /\ importStatus' # "processing")
          => importStatus' = "idle" /\ previewData' = JNull
      ]_vars

----------------------------------------------------------------------------
(* Claims about what a load leaves in storage                               *)

\* C29: getStoredData never writes the configuration blob: after any number
\* of loads, of a valid, legacy-shaped or corrupted blob, the value stored
\* under the configuration key is unchanged; so a corrupted blob keeps
\* yielding isSafeMode = true (and one more system-log entry per load) on
\* every load until a saveStoredData replaces it.  The part about the
\* corrupted blob is stated for a working medium.
C29_LoadWritesNoConfig ==
    [][Load =>
          /\ ls'[STORAGE_KEY] = ls[STORAGE_KEY]
          /\ mem'[STORAGE_KEY] = mem[STORAGE_KEY]
          /\ (medium = "ok" /\ Malformed(ls[STORAGE_KEY]))
                => /\ Get(data', "isSafeMode") = Bool(TRUE)
                   /\ cfgRet'.appendedOne
      ]_vars

----------------------------------------------------------------------------
(* Claims about the admin session                                           *)

SessionStored == TruthyStr(safeStorage_getItem(ls, mem, medium, SESSION_KEY).val)

\* C30: the admin surface is reachable only with an unexpired session:
\* isAuthenticated is true only when a session exists and
\* now < session.expiresAt, where expiresAt is the login time plus 8 hours;
\* on start-up a stored session with expiresAt <= now (or an unparsable
\* one) is never restored and is removed from storage, and after logout no
\* session is stored.  The parts about storage are stated for a working
\* medium.
C30_OnlyUnexpiredSession ==
    [][/\ isAuthenticated' => Authenticated(session', clock')
       /\ Login("a@schools.nyc.gov")
            => Get(session', "expiresAt") = Num(clock + SESSION_MS)
       /\ (Startup /\ medium = "ok" /\ SessionStored
             /\ ~(ls[SESSION_KEY].k = "json" /\ Unexpired(ls[SESSION_KEY].v, clock)))
            => session' = JNull /\ ls'[SESSION_KEY] = NULL
       /\ (Logout /\ medium = "ok") => ls'[SESSION_KEY] = NULL
      ]_vars

====
